---- MODULE Spec2Model ----
(***************************************************************************)
(* Model of eslint-to-oxlint's reduce pipeline: analyzeDirectory walks the *)
(* discovered ESLint configs, analyzeConfigPair classifies the rules of    *)
(* one config against its Oxlint rule set, generateReport renders the      *)
(* result.                                                                 *)
(*                                                                         *)
(* A rule name or a path is a string; the model keeps it as the sequence   *)
(* of its "/"-separated segments (the value of split("/")), so that the    *)
(* prefix rewrites, split("/")[1] and the directory arithmetic of the      *)
(* source are computed, not assumed.                                       *)
(***************************************************************************)
EXTENDS Integers, Sequences, FiniteSets, TLC

VARIABLES
    cwd,                          \* process.cwd()
    typeAwareRulesCache,          \* the module-level cache of getTypeAwareRules
    processed,                    \* sortByDependencies: the Set processed
    result,                       \* sortByDependencies: the array result
    stack,                        \* the loops over configs that are under way
    disk,                         \* the .oxlintrc.json of each directory
    configs,                      \* discovered ESLint configs, sorted by path
    ruleNames,                    \* OxlintRulesRegistry.ruleNames
    typeAware,                    \* AnalyzeOptions.typeAware
    pc,                           \* position in the run
    idx,                          \* loop index of analyzeDirectory
    results,                      \* AnalysisResult.results
    analyzedOxlintConfigs,        \* AnalysisResult.analyzedOxlintConfigs
    eslintConfigsWithoutOxlint,   \* AnalysisResult.eslintConfigsWithoutOxlint
    unsupportedRulesNotInOxlint,  \* AnalysisResult.unsupportedRulesNotInOxlint
    report,                       \* the lines generateReport printed
    arg,                          \* the argument of a call of one function
    out                           \* what the call returned or threw

vars == <<cwd, disk, typeAwareRulesCache, processed, result, stack, configs, ruleNames, typeAware, pc, idx, results,
          analyzedOxlintConfigs, eslintConfigsWithoutOxlint,
          unsupportedRulesNotInOxlint, report, arg, out>>

-----------------------------------------------------------------------------
(* JavaScript values found as rule values in config files *)

JsNum(n) == [kind |-> "number", num |-> n, str |-> "", items |-> <<>>]
JsStr(s) == [kind |-> "string", num |-> 0, str |-> s, items |-> <<>>]
JsArr(xs) == [kind |-> "array", num |-> 0, str |-> "", items |-> xs]
JsUndefined == [kind |-> "undefined", num |-> 0, str |-> "", items |-> <<>>]
JsNull == [kind |-> "null", num |-> 0, str |-> "", items |-> <<>>]
JsObject == [kind |-> "object", num |-> 0, str |-> "", items |-> <<>>]

\* value[0] of an array (undefined when the array is empty)
First(value) == IF Len(value.items) > 0 THEN value.items[1] ELSE JsUndefined

\* the outcome of a severity conversion that raises an error
THROWS == "throws"

\* normalizeSeverity answering off where it has no answer
normalizeSeverityLenient(severity) ==
    IF severity.kind = "number"
    THEN CASE severity.num = 0 -> "off"
           [] severity.num = 1 -> "warn"
           [] severity.num = 2 -> "error"
           [] OTHER -> "off"
    ELSE IF severity.kind = "string" /\ severity.str = "deny" THEN "error"
    ELSE IF severity.kind = "string" /\ severity.str \in {"warn", "error"}
         THEN severity.str
    ELSE "off"

normalizeSeverity(severity) ==
    IF severity.kind = "number"
    THEN CASE severity.num = 0 -> "off"
           [] severity.num = 1 -> "warn"
           [] severity.num = 2 -> "error"
           [] OTHER -> THROWS
    ELSE IF severity.kind = "string" /\ severity.str = "deny" THEN "error"
    ELSE IF severity.kind = "string" /\ severity.str = "allow" THEN "off"
    ELSE IF severity.kind = "string" /\ severity.str \in {"off", "warn", "error"}
         THEN severity.str
    ELSE THROWS

\* the helper getSeverity inside getDirectlyDefinedRules; an array value
\* recurses once on its first element
getSeverityScalar(value) ==
    IF value.kind = "number"
    THEN IF value.num = 2 THEN "error"
         ELSE IF value.num = 1 THEN "warn" ELSE "off"
    ELSE IF value.kind = "string"
    THEN IF value.str = "error" \/ value.str = "2" THEN "error"
         ELSE IF value.str = "warn" \/ value.str = "1" THEN "warn" ELSE "off"
    ELSE "off"

getSeverity(value) ==
    IF value.kind = "array" /\ Len(value.items) > 0
    THEN getSeverityScalar(value.items[1])
    ELSE getSeverityScalar(value)

-----------------------------------------------------------------------------
(* Rule names *)

\* name.replace(/^@typescript-eslint\//, "typescript/")
toOxlintPrefix(name) ==
    IF Len(name) >= 2 /\ name[1] = "@typescript-eslint"
    THEN <<"typescript">> \o Tail(name)
    ELSE name

\* name.replace(/^typescript\//, "@typescript-eslint/")
toEslintName(name) ==
    IF Len(name) >= 2 /\ name[1] = "typescript"
    THEN <<"@typescript-eslint">> \o Tail(name)
    ELSE name

\* name.replace(/^eslint\//, "")
stripEslintPrefix(name) ==
    IF Len(name) >= 2 /\ name[1] = "eslint" THEN Tail(name) ELSE name

normalizeOxlintRuleName(ruleName) == stripEslintPrefix(toOxlintPrefix(ruleName))

\* the embedded list of type-aware rules, cut down to the rules of the model
TYPE_AWARE_RULES_FALLBACK ==
    { <<"typescript", "no-floating-promises">>,
      <<"typescript", "await-thenable">> }

\* typeAwareRulesCache before the first call
NoCache == [present |-> FALSE, rules |-> {}]

\* the outcomes of the execSync that fetches the docs page: it throws (the
\* command fails, grep finds nothing, the timeout passes) or it returns the
\* lines that grep printed
FetchFailed == [kind |-> "failed", lines |-> <<>>]
FetchTimedOut == [kind |-> "timeout", lines |-> <<>>]
FetchOutput(lines) == [kind |-> "output", lines |-> lines]

\* result.trim().split("\n").filter((r) => r.startsWith("typescript/"))
fetchedRules(fetch) ==
    { r \in { fetch.lines[i] : i \in 1..Len(fetch.lines) } :
        Len(r) >= 2 /\ r[1] = "typescript" }

\* getTypeAwareRules without the try around the fetch
getTypeAwareRulesUncaught(cache, fetch) ==
    IF cache.present THEN [kind |-> "returned", rules |-> cache.rules]
    ELSE IF fetch.kind # "output" THEN [kind |-> "threw", rules |-> {}]
    ELSE IF fetchedRules(fetch) # {}
    THEN [kind |-> "returned", rules |-> fetchedRules(fetch)]
    ELSE [kind |-> "returned", rules |-> TYPE_AWARE_RULES_FALLBACK]

\* getTypeAwareRules() on the cache and the outcome of the fetch
getTypeAwareRulesFrom(cache, fetch) ==
    IF cache.present THEN [kind |-> "returned", rules |-> cache.rules]
    ELSE IF fetch.kind = "output" /\ fetchedRules(fetch) # {}
    THEN [kind |-> "returned", rules |-> fetchedRules(fetch)]
    ELSE [kind |-> "returned", rules |-> TYPE_AWARE_RULES_FALLBACK]

\* getTypeAwareRules() in a run of the analysis: the docs page is not
\* reached
getTypeAwareRules == getTypeAwareRulesFrom(NoCache, FetchFailed).rules

\* isSupportedByOxlint looking the name up as it is spelled
isSupportedAsSpelled(names, ruleName) ==
    \/ ruleName \in names
    \/ /\ Len(ruleName) >= 2
       /\ <<ruleName[2]>> \in names

isSupportedByOxlint(names, ruleName) ==
    LET normalizedName == normalizeOxlintRuleName(ruleName)
    IN  \/ normalizedName \in names
        \/ /\ Len(normalizedName) >= 2
           /\ <<normalizedName[2]>> \in names

isTypeAware(ruleName) == normalizeOxlintRuleName(ruleName) \in getTypeAwareRules

\* the first segments of the model's names that start with "@"
AtSegments == {"@typescript-eslint", "@scope"}

\* no plugin: a core ESLint rule
NoPlugin == <<>>

getPluginPrefix(ruleName) ==
    IF ruleName[1] \in AtSegments
    THEN IF Len(ruleName) >= 3 /\ ruleName[2] # ""
         THEN <<ruleName[1], ruleName[2]>>
         ELSE IF Len(ruleName) >= 2 THEN <<ruleName[1]>> ELSE NoPlugin
    ELSE IF Len(ruleName) >= 2 THEN <<ruleName[1]>> ELSE NoPlugin

-----------------------------------------------------------------------------
(* Map and Set of JavaScript keep insertion order *)

MapHas(entries, key) == \E i \in 1..Len(entries) : entries[i].name = key

\* Map.set: a new key is appended, an existing key keeps its place
MapSet(entries, entry) ==
    IF MapHas(entries, entry.name)
    THEN [i \in 1..Len(entries) |->
             IF entries[i].name = entry.name THEN entry ELSE entries[i]]
    ELSE Append(entries, entry)

\* Set.add
SetAdd(seq, x) ==
    IF \E i \in 1..Len(seq) : seq[i] = x THEN seq ELSE Append(seq, x)

Range(seq) == { seq[i] : i \in 1..Len(seq) }

\* Map.get: the entry of the key, or NoEntry (undefined)
NoEntry == [name |-> <<>>, severity |-> "undefined"]

MapGet(entries, key) ==
    IF MapHas(entries, key)
    THEN entries[CHOOSE i \in 1..Len(entries) : entries[i].name = key]
    ELSE NoEntry

SeqMap(f(_), seq) == [i \in 1..Len(seq) |-> f(seq[i])]

RECURSIVE Concat(_)
Concat(seqs) == IF seqs = <<>> THEN <<>> ELSE Head(seqs) \o Concat(Tail(seqs))

-----------------------------------------------------------------------------
(* Loading the two configs of a pair.  An object of a config file is the   *)
(* sequence of its entries [name, value] in key order (Object.entries).    *)

\* the rules loop of loadESLintConfig over the output of eslint --print-config
loadESLintConfig(resolvedRules) ==
    SeqMap(LAMBDA e : [name |-> toOxlintPrefix(e.name),
                       severity |-> IF e.value.kind = "array"
                                    THEN normalizeSeverity(First(e.value))
                                    ELSE normalizeSeverity(e.value)],
           resolvedRules)

\* the rules loop of loadOxlintConfigViaCommand over oxlint --print-config:
\* a value that is neither a string nor an array is left out
loadOxlintConfigViaCommand(oxlintRules) ==
    SeqMap(LAMBDA e : [name |-> e.name,
                       severity |-> IF e.value.kind = "array"
                                    THEN normalizeSeverity(First(e.value))
                                    ELSE normalizeSeverity(e.value)],
           SelectSeq(oxlintRules,
                     LAMBDA e : e.value.kind \in {"string", "array"}))

RECURSIVE addTopLevelRules(_, _)
addTopLevelRules(directRules, entries) ==
    IF entries = <<>> THEN directRules
    ELSE addTopLevelRules(
             MapSet(directRules,
                    [name |-> toOxlintPrefix(Head(entries).name),
                     severity |-> getSeverity(Head(entries).value)]),
             Tail(entries))

\* addOverrideRules taking every rule of an override block, off or not
RECURSIVE addOverrideRulesAnySeverity(_, _)
addOverrideRulesAnySeverity(directRules, entries) ==
    IF entries = <<>> THEN directRules
    ELSE LET normalizedName == toOxlintPrefix(Head(entries).name)
             severity == getSeverity(Head(entries).value)
         IN  addOverrideRulesAnySeverity(
                 IF ~MapHas(directRules, normalizedName)
                 THEN MapSet(directRules, [name |-> normalizedName,
                                           severity |-> severity])
                 ELSE directRules,
                 Tail(entries))

RECURSIVE addOverrideRules(_, _)
addOverrideRules(directRules, entries) ==
    IF entries = <<>> THEN directRules
    ELSE LET normalizedName == toOxlintPrefix(Head(entries).name)
             severity == getSeverity(Head(entries).value)
         IN  addOverrideRules(
                 IF ~MapHas(directRules, normalizedName) /\ severity # "off"
                 THEN MapSet(directRules, [name |-> normalizedName,
                                           severity |-> severity])
                 ELSE directRules,
                 Tail(entries))

getDirectlyDefinedRules(rawConfig) ==
    addOverrideRules(addTopLevelRules(<<>>, rawConfig.rules),
                     Concat(rawConfig.overrides))

RECURSIVE addOffRules(_, _)
addOffRules(offRules, entries) ==
    IF entries = <<>> THEN offRules
    ELSE LET ruleValue == Head(entries).value
             severity == IF ruleValue.kind = "array" THEN First(ruleValue)
                         ELSE ruleValue
         IN  addOffRules(
                 IF \/ severity.kind = "string" /\ severity.str \in {"off", "0"}
                    \/ severity.kind = "number" /\ severity.num = 0
                 THEN SetAdd(offRules, toOxlintPrefix(Head(entries).name))
                 ELSE offRules,
                 Tail(entries))

\* getOffRulesFromOverrides scanning the top-level rules block as well
getOffRulesFromAllBlocks(rawConfig) ==
    addOffRules(<<>>, rawConfig.rules \o Concat(rawConfig.overrides))

getOffRulesFromOverrides(rawConfig) ==
    addOffRules(<<>>, Concat(rawConfig.overrides))

\* the loops of parseRawOxlintRules over the rules block and the rules of
\* the override blocks of one .oxlintrc.json: every entry is pushed
ownOxlintRules(config) ==
    SeqMap(LAMBDA e : [name |-> e.name,
                       severity |-> IF e.value.kind = "array"
                                    THEN normalizeSeverity(First(e.value))
                                    ELSE normalizeSeverity(e.value)],
           config.rules \o Concat(config.overrides))

\* no .oxlintrc.json next to the parent, or no parent
NoOxlintFile == [exists |-> FALSE, rules |-> <<>>, overrides |-> <<>>]

OxlintFile(rules, overrides) ==
    [exists |-> TRUE, rules |-> rules, overrides |-> overrides]

\* parseRawOxlintRules(configPath, parentConfigPath) on the two files: the
\* rules of the parent whose names the child does not have come last
parseRawOxlintRules(config, parent) ==
    LET oxlintRules == IF config.exists THEN ownOxlintRules(config) ELSE <<>>
        parentRules == IF parent.exists THEN ownOxlintRules(parent) ELSE <<>>
    IN  oxlintRules
            \o SelectSeq(parentRules,
                         LAMBDA parentRule :
                             ~MapHas(oxlintRules, parentRule.name))

RECURSIVE buildRuleMap(_, _)
buildRuleMap(map, rules) ==
    IF rules = <<>> THEN map
    ELSE buildRuleMap(MapSet(map, Head(rules)), Tail(rules))

-----------------------------------------------------------------------------
(* analyzeConfigPair *)

\* oxlintRule && oxlintRule.severity !== "off"
enabledInOxlint(oxlintRuleMap, name) ==
    /\ MapHas(oxlintRuleMap, name)
    /\ MapGet(oxlintRuleMap, name).severity # "off"

\* directOutcome without the skip of type-aware rules
directOutcomeNoSkip(names, ta, oxlintRuleMap, eslintRule) ==
    IF eslintRule.severity = "off" THEN "skipped"
    ELSE IF ~isSupportedByOxlint(names, eslintRule.name) THEN "unsupported"
    ELSE IF enabledInOxlint(oxlintRuleMap, eslintRule.name) THEN "remove"
    ELSE "unsupported"

\* directOutcome requiring the two severities to be equal
directOutcomeSameSeverity(names, ta, oxlintRuleMap, eslintRule) ==
    IF eslintRule.severity = "off" THEN "skipped"
    ELSE IF ~isSupportedByOxlint(names, eslintRule.name) THEN "unsupported"
    ELSE IF ~ta /\ isTypeAware(eslintRule.name) THEN "skipped"
    ELSE IF /\ MapHas(oxlintRuleMap, eslintRule.name)
            /\ MapGet(oxlintRuleMap, eslintRule.name).severity
                 = eslintRule.severity
    THEN "remove"
    ELSE "unsupported"

\* the body of the loop over directEslintRules: what happens to one rule
directOutcome(names, ta, oxlintRuleMap, eslintRule) ==
    IF eslintRule.severity = "off" THEN "skipped"
    ELSE IF ~isSupportedByOxlint(names, eslintRule.name) THEN "unsupported"
    ELSE IF ~ta /\ isTypeAware(eslintRule.name) THEN "skipped"
    ELSE IF enabledInOxlint(oxlintRuleMap, eslintRule.name) THEN "remove"
    ELSE "unsupported"

\* inheritedOutcome skipping the rules that are not type-aware
inheritedOutcomeSkipOthers(names, ta, oxlintRuleMap, directRuleNames, eslintRule) ==
    IF eslintRule.name \in directRuleNames THEN "skipped"
    ELSE IF eslintRule.severity = "off" THEN "skipped"
    ELSE IF ~isSupportedByOxlint(names, eslintRule.name) THEN "unsupported"
    ELSE IF ta /\ isTypeAware(eslintRule.name) THEN "skipped"
    ELSE IF enabledInOxlint(oxlintRuleMap, eslintRule.name) THEN "disable"
    ELSE "unsupported"

\* the body of the loop over resolvedEslintRules
inheritedOutcome(names, ta, oxlintRuleMap, directRuleNames, eslintRule) ==
    IF eslintRule.name \in directRuleNames THEN "skipped"
    ELSE IF eslintRule.severity = "off" THEN "skipped"
    ELSE IF ~isSupportedByOxlint(names, eslintRule.name) THEN "unsupported"
    ELSE IF ~ta /\ isTypeAware(eslintRule.name) THEN "skipped"
    ELSE IF enabledInOxlint(oxlintRuleMap, eslintRule.name) THEN "disable"
    ELSE "unsupported"

\* redundantOff that does not look at the Oxlint rule set
redundantOffWhenSupported(names, ta, oxlintRuleMap, ruleName) ==
    IF ~isSupportedByOxlint(names, ruleName) THEN FALSE
    ELSE IF ~ta /\ isTypeAware(ruleName) THEN FALSE
    ELSE TRUE

\* the body of the loop over the off rules of the overrides
redundantOff(names, ta, oxlintRuleMap, ruleName) ==
    IF ~isSupportedByOxlint(names, ruleName) THEN FALSE
    ELSE IF ~ta /\ isTypeAware(ruleName) THEN FALSE
    ELSE enabledInOxlint(oxlintRuleMap, ruleName)

\* the grouping of rule names by plugin: the plugins in order of first use
RECURSIVE pluginsOf(_, _)
pluginsOf(plugins, eslintRuleNames) ==
    IF eslintRuleNames = <<>> THEN plugins
    ELSE LET plugin == getPluginPrefix(Head(eslintRuleNames))
         IN  pluginsOf(IF plugin # NoPlugin THEN SetAdd(plugins, plugin)
                       ELSE plugins,
                       Tail(eslintRuleNames))

\* Map<plugin, Set<rule>>.get(plugin)
rulesOfPlugin(eslintRuleNames, plugin) ==
    { n \in Range(eslintRuleNames) : getPluginPrefix(n) = plugin }

\* pluginsToDisable taking a plugin as soon as one of its rules is removable
pluginsWithRemovableRule(allEnabledRules, allRulesToRemove) ==
    SelectSeq(pluginsOf(<<>>, allEnabledRules),
              LAMBDA plugin : rulesOfPlugin(allRulesToRemove, plugin) # {})

\* the plugins all of whose enabled rules are to be removed
pluginsToDisable(allEnabledRules, allRulesToRemove) ==
    SelectSeq(pluginsOf(<<>>, allEnabledRules),
              LAMBDA plugin :
                  /\ rulesOfPlugin(allRulesToRemove, plugin) # {}
                  /\ Cardinality(rulesOfPlugin(allRulesToRemove, plugin))
                       = Cardinality(rulesOfPlugin(allEnabledRules, plugin)))

\* the length of the longest common prefix of two paths
CommonLen(from, to) ==
    CHOOSE n \in 0..Len(from) :
        /\ n <= Len(to)
        /\ SubSeq(from, 1, n) = SubSeq(to, 1, n)
        /\ \A m \in (n + 1)..Len(from) :
               m > Len(to) \/ SubSeq(from, 1, m) # SubSeq(to, 1, m)

\* path.relative(from, to) of two absolute paths: one ".." for every
\* segment of from below the common prefix, then the rest of to
relative(from, to) ==
    LET n == CommonLen(from, to)
    IN  [i \in 1..(Len(from) - n) |-> ".."] \o SubSeq(to, n + 1, Len(to))

\* path.join(path.dirname(eslintConfigPath), ".oxlintrc.json")
oxlintPathOf(eslintConfigPath) ==
    SubSeq(eslintConfigPath, 1, Len(eslintConfigPath) - 1)
        \o <<".oxlintrc.json">>

analyzeConfigPair(config, names, ta) ==
    LET rawConfig == config.raw
        resolvedEslintRules == loadESLintConfig(config.resolved)
        directEslintRules == getDirectlyDefinedRules(rawConfig)
        directRuleNames == { r.name : r \in Range(directEslintRules) }
        oxlintRuleMap ==
            buildRuleMap(<<>>, loadOxlintConfigViaCommand(config.oxlint))
        eslintNameOf(r) == toEslintName(r.name)
        direct(r) == directOutcome(names, ta, oxlintRuleMap, r)
        inherited(r) ==
            inheritedOutcome(names, ta, oxlintRuleMap, directRuleNames, r)
        rulesToRemove ==
            SeqMap(eslintNameOf,
                   SelectSeq(directEslintRules, LAMBDA r : direct(r) = "remove"))
        inheritedRulesToDisable ==
            SeqMap(eslintNameOf,
                   SelectSeq(resolvedEslintRules,
                             LAMBDA r : inherited(r) = "disable"))
        unsupportedRules ==
            SeqMap(eslintNameOf,
                   SelectSeq(directEslintRules,
                             LAMBDA r : direct(r) = "unsupported"))
            \o SeqMap(eslintNameOf,
                      SelectSeq(resolvedEslintRules,
                                LAMBDA r : inherited(r) = "unsupported"))
        redundantOffRules ==
            SeqMap(toEslintName,
                   SelectSeq(getOffRulesFromOverrides(rawConfig),
                             LAMBDA n : redundantOff(names, ta, oxlintRuleMap, n)))
        allEnabledRules ==
            SeqMap(eslintNameOf,
                   SelectSeq(directEslintRules, LAMBDA r : r.severity # "off")
                   \o SelectSeq(resolvedEslintRules,
                                LAMBDA r : /\ r.severity # "off"
                                           /\ r.name \notin directRuleNames))
    IN  [eslintConfigPath |-> relative(cwd, config.path),
         oxlintConfigPath |-> relative(cwd, oxlintPathOf(config.path)),
         rulesToRemove |-> rulesToRemove,
         inheritedRulesToDisable |-> inheritedRulesToDisable,
         redundantOffRules |-> redundantOffRules,
         unsupportedRules |-> unsupportedRules,
         pluginsToDisable |->
             pluginsToDisable(allEnabledRules,
                              rulesToRemove \o inheritedRulesToDisable),
         summary |-> [totalEslintRules |-> Len(directEslintRules),
                      toRemove |-> Len(rulesToRemove),
                      inheritedToDisable |-> Len(inheritedRulesToDisable),
                      redundantOff |-> Len(redundantOffRules)]]

-----------------------------------------------------------------------------
(* generateReport *)

\* every string the report sorts, in the order of Array.prototype.sort
\* (UTF-16 code units of the joined string)
StringOrder ==
    << <<"@scope", "pkg">>,
       <<"@scope", "pkg", "rule">>,
       <<"@typescript-eslint">>,
       <<"@typescript-eslint", "await-thenable">>,
       <<"@typescript-eslint", "no-floating-promises">>,
       <<"eslint", "no-console">>,
       <<"no-console">>,
       <<"no-magic-numbers">>,
       <<"react">>,
       <<"react", "jsx-key">>,
       <<"react", "no-danger">> >>

\* Array.prototype.sort() of an array of strings
sortStrings(seq) ==
    Concat([i \in 1..Len(StringOrder) |->
                SelectSeq(seq, LAMBDA x : x = StringOrder[i])])

\* the deepest path the sort by depth is modelled for
MaxDepth == 5

\* [...results].sort((a, b) => depthA - depthB): stable, by number of segments
sortByDepth(rs) ==
    Concat([d \in 1..MaxDepth |->
                SelectSeq(rs, LAMBDA r : Len(r.eslintConfigPath) = d)])

\* parts.join("/") || "."
joinOrDot(parts) == IF parts = <<>> \/ parts = <<"">> THEN <<".">> ELSE parts

getParentDir(configPath) ==
    joinOrDot(SubSeq(configPath, 1, Len(configPath) - 1))

\* rulesSuggestedByPath.get(dir) || []
suggestedAt(rulesSuggestedByPath, dir) ==
    IF dir \in DOMAIN rulesSuggestedByPath THEN rulesSuggestedByPath[dir]
    ELSE {}

getRulesSuggestedByAncestors(rulesSuggestedByPath, configPath) ==
    LET parts == getParentDir(configPath)
    IN  UNION { suggestedAt(rulesSuggestedByPath,
                            joinOrDot(SubSeq(parts, 1, i))) : i \in 0..Len(parts) }

\* getFilteredRules: without the rules of the plugins to disable
getFilteredRules(allPluginsToDisable, rules) ==
    SelectSeq(rules, LAMBDA r : ~(/\ getPluginPrefix(r) # NoPlugin
                                  /\ getPluginPrefix(r) \in allPluginsToDisable))

\* sortedResults.map(...): the results with their filtered lists, the map
\* rulesSuggestedByPath being threaded through the calls
RECURSIVE filterResults(_, _, _)
filterResults(allPluginsToDisable, rulesSuggestedByPath, sortedResults) ==
    IF sortedResults = <<>> THEN <<>>
    ELSE LET r == Head(sortedResults)
             ancestorRules ==
                 getRulesSuggestedByAncestors(rulesSuggestedByPath,
                                              r.eslintConfigPath)
             filteredRulesToRemove ==
                 SelectSeq(getFilteredRules(allPluginsToDisable, r.rulesToRemove),
                           LAMBDA rule : rule \notin ancestorRules)
             filteredInheritedRulesToDisable ==
                 SelectSeq(getFilteredRules(allPluginsToDisable,
                                            r.inheritedRulesToDisable),
                           LAMBDA rule : rule \notin ancestorRules)
             configDir == getParentDir(r.eslintConfigPath)
             allSuggestedRules ==
                 Range(filteredRulesToRemove)
                     \cup Range(filteredInheritedRulesToDisable)
                     \cup suggestedAt(rulesSuggestedByPath, configDir)
                     \cup ancestorRules
         IN  <<[eslintConfigPath |-> r.eslintConfigPath,
                filteredRulesToRemove |-> filteredRulesToRemove,
                filteredInheritedRulesToDisable |->
                    filteredInheritedRulesToDisable]>>
             \o filterResults(allPluginsToDisable,
                              (configDir :> allSuggestedRules)
                                  @@ rulesSuggestedByPath,
                              Tail(sortedResults))

\* one printed line: the section it is in, the config it is under, the rule
\* or plugin it names (<<>> on the line that names the config)
Line(section, config, rule) ==
    [section |-> section, config |-> config, rule |-> rule]

\* the lines of one per-config section
sectionLines(section, rs, rulesOf(_)) ==
    Concat([i \in 1..Len(rs) |->
                <<Line(section, rs[i].eslintConfigPath, <<>>)>>
                \o SeqMap(LAMBDA rule : Line(section, rs[i].eslintConfigPath, rule),
                          sortStrings(rulesOf(rs[i])))])

RECURSIVE SeqOfSet(_)
SeqOfSet(set) ==
    IF set = {} THEN <<>>
    ELSE LET x == CHOOSE y \in set : TRUE IN <<x>> \o SeqOfSet(set \ {x})

\* the text of the report, as its lines
reportLines(rs, stillNeeded) ==
    LET allPluginsToDisable == UNION { Range(r.pluginsToDisable) : r \in Range(rs) }
        filteredResults ==
            filterResults(allPluginsToDisable, <<>>, sortByDepth(rs))
        resultsWithRulesToRemove ==
            SelectSeq(filteredResults, LAMBDA r : Len(r.filteredRulesToRemove) > 0)
        resultsWithInheritedToDisable ==
            SelectSeq(filteredResults,
                      LAMBDA r : Len(r.filteredInheritedRulesToDisable) > 0)
        resultsWithRedundantOff ==
            SelectSeq(rs, LAMBDA r : r.summary.redundantOff > 0)
    IN  IF Len(rs) = 0 THEN <<Line("no-configs", <<>>, <<>>)>>
        ELSE IF /\ allPluginsToDisable = {}
                /\ resultsWithRulesToRemove = <<>>
                /\ resultsWithInheritedToDisable = <<>>
                /\ resultsWithRedundantOff = <<>>
                /\ Len(stillNeeded) = 0
        THEN <<Line("nothing-to-remove", <<>>, <<>>)>>
        ELSE SeqMap(LAMBDA plugin : Line("plugins", <<>>, plugin),
                    sortStrings(SeqOfSet(allPluginsToDisable)))
             \o sectionLines("to-remove", resultsWithRulesToRemove,
                             LAMBDA r : r.filteredRulesToRemove)
             \o sectionLines("inherited-to-disable", resultsWithInheritedToDisable,
                             LAMBDA r : r.filteredInheritedRulesToDisable)
             \o sectionLines("redundant-off", resultsWithRedundantOff,
                             LAMBDA r : r.redundantOffRules)
             \o SeqMap(LAMBDA rule : Line("still-needed", <<>>, rule), stillNeeded)

\* result.redundantOffRules.sort() sorts the list of the analysis in place
resultsAfterReport(rs) ==
    [i \in 1..Len(rs) |->
        [rs[i] EXCEPT !.redundantOffRules = sortStrings(rs[i].redundantOffRules)]]

-----------------------------------------------------------------------------
(* The inputs of a run *)

Entry(name, value) == [name |-> name, value |-> value]

\* an ESLint config as analyzeDirectory meets it: the module the file
\* exports (raw), the rules of eslint --print-config (resolved), and the
\* rules of oxlint --print-config when the directory has an .oxlintrc.json
\* extendsFrom of a config that extends no file
NoExtends == <<>>

Config(path, rules, overrides, resolved, hasOxlint, oxlint) ==
    [path |-> path,
     extendsFrom |-> NoExtends,
     raw |-> [rules |-> rules, overrides |-> overrides],
     resolved |-> resolved,
     hasOxlint |-> hasOxlint,
     oxlint |-> oxlint]

\* what a config says about one rule at one place
Tri == {"absent", "off", "on"}

\* the spellings of a severity: the first key of a family uses one set of
\* spellings, the second key another
topValue(second, choice) ==
    IF second
    THEN IF choice = "off" THEN JsArr(<<JsNum(0)>>) ELSE JsStr("error")
    ELSE IF choice = "off" THEN JsStr("off") ELSE JsNum(2)

\* the override blocks of a config alternate between two sets of spellings
overrideValue(block, choice) ==
    IF block % 2 = 1
    THEN IF choice = "off" THEN JsNum(0)
         ELSE JsArr(<<JsStr("warn"), JsStr("always")>>)
    ELSE IF choice = "off" THEN JsArr(<<JsStr("off")>>) ELSE JsStr("error")

resolvedValue(second, choice) ==
    IF second
    THEN IF choice = "off" THEN JsNum(0) ELSE JsArr(<<JsNum(1)>>)
    ELSE IF choice = "off" THEN JsArr(<<JsStr("off")>>)
         ELSE JsArr(<<JsStr("error"), JsStr("always")>>)

oxlintValue(second, choice) ==
    IF second
    THEN IF choice = "off" THEN JsArr(<<JsStr("off")>>)
         ELSE JsArr(<<JsStr("warn"), JsStr("always")>>)
    ELSE IF choice = "off" THEN JsStr("allow") ELSE JsStr("deny")

\* the entry of a key, or nothing when the config does not name the key
Opt(name, choice, value) ==
    IF choice = "absent" THEN <<>> ELSE <<Entry(name, value)>>

NoConsole == <<"no-console">>
NoMagicNumbers == <<"no-magic-numbers">>
TsNoFloatingPromises == <<"@typescript-eslint", "no-floating-promises">>
OxNoFloatingPromises == <<"typescript", "no-floating-promises">>
TsAwaitThenable == <<"@typescript-eslint", "await-thenable">>
OxAwaitThenable == <<"typescript", "await-thenable">>
ReactJsxKey == <<"react", "jsx-key">>
ReactNoDanger == <<"react", "no-danger">>

\* the pairs of ESLint keys a config of SpecPair is written over
Families == {
    <<TsNoFloatingPromises, OxNoFloatingPromises>>,
    <<ReactJsxKey, ReactNoDanger>>,
    <<NoConsole, NoMagicNumbers>>,
    <<TsAwaitThenable, NoConsole>> }

\* the name sets of the registry: every rule under its scoped name, the
\* rules under their bare names, no rule at all
Registries == {
    { NoConsole, OxNoFloatingPromises, OxAwaitThenable, ReactJsxKey,
      ReactNoDanger },
    { NoConsole, <<"no-floating-promises">>, <<"await-thenable">>,
      <<"jsx-key">> },
    {} }

\* the number of override blocks of a config of SpecPair
MaxOverrides == 2

RootConfigPath == <<"proj", ".eslintrc.js">>

\* one config over the two keys of a family
PairConfig(family, aTop, aOvr, aRes, aOx, bTop, bRes, bOx) ==
    LET a == family[1]
        b == family[2]
    IN  Config(RootConfigPath,
               Opt(a, aTop, topValue(FALSE, aTop))
                   \o Opt(b, bTop, topValue(TRUE, bTop)),
               [i \in 1..Len(aOvr) |-> Opt(a, aOvr[i], overrideValue(i, aOvr[i]))],
               Opt(a, aRes, resolvedValue(FALSE, aRes))
                   \o Opt(b, bRes, resolvedValue(TRUE, bRes)),
               TRUE,
               Opt(toOxlintPrefix(a), aOx, oxlintValue(FALSE, aOx))
                   \o Opt(toOxlintPrefix(b), bOx, oxlintValue(TRUE, bOx)))

\* the keys of a name set
Keys(entries) == { entries[i].name : i \in 1..Len(entries) }

\* every combination of the choices, for every family
PairConfigs ==
    { PairConfig(family, aTop, aOvr, aRes, aOx, bTop, bRes, bOx) :
        family \in Families, aTop \in Tri, aOvr \in [1..MaxOverrides -> Tri],
        aRes \in Tri, aOx \in Tri, bTop \in Tri, bRes \in Tri,
        bOx \in {"absent", "on"} }

\* the configs a run can meet: the rules of eslint --print-config include
\* every rule of the file's own rules block, and the two keys of a family
\* that are one Oxlint rule share its one entry in the Oxlint rule set
PairWorlds ==
    { <<c>> : c \in { d \in PairConfigs :
                        /\ Keys(d.raw.rules) \subseteq Keys(d.resolved)
                        /\ \A i, j \in 1..Len(d.oxlint) :
                               d.oxlint[i].name = d.oxlint[j].name => i = j } }

\* the config files of a directory run on /proj, in the order of
\* findESLintConfigs (sorted as strings: "+" sorts before ".", "." before
\* "c" and "s")
TreePaths ==
    << <<"proj", "+app", ".eslintrc.js">>,
       <<"proj", "+app", "src", ".eslintrc.js">>,
       <<"proj", ".eslintrc.js">>,
       <<"proj", "client", ".eslintrc.js">> >>

\* the working directories of a directory run: the analyzed directory, a
\* directory next to it (npx tsx src/reduce.ts ../proj), a directory in it
Cwds == { <<"proj">>, <<"work">>, <<"proj", "+app">> }

\* the most configs a directory run discovers
MaxConfigs == 2

\* how a config of a directory run has a rule: not at all, in its own rules
\* block, or through extends only
Has == {"absent", "direct", "inherited"}

DirConfig(path, console, promises, magic, hasOxlint, oxPromises) ==
    Config(path,
           Opt(NoConsole, IF console = "direct" THEN "on" ELSE "absent",
               JsStr("warn"))
               \o Opt(TsNoFloatingPromises,
                      IF promises = "direct" THEN "on" ELSE "absent",
                      JsStr("error"))
               \o Opt(NoMagicNumbers, IF magic = "direct" THEN "on" ELSE "absent",
                      JsNum(2)),
           <<>>,
           Opt(NoConsole, IF console = "absent" THEN "absent" ELSE "on",
               JsArr(<<JsStr("warn")>>))
               \o Opt(TsNoFloatingPromises,
                      IF promises = "absent" THEN "absent" ELSE "on",
                      JsArr(<<JsStr("error")>>))
               \o Opt(NoMagicNumbers, IF magic = "absent" THEN "absent" ELSE "on",
                      JsArr(<<JsStr("error")>>)),
           hasOxlint,
           IF hasOxlint
           THEN <<Entry(NoConsole, JsStr("deny"))>>
                \o Opt(OxNoFloatingPromises,
                       IF oxPromises THEN "on" ELSE "absent", JsStr("deny"))
           ELSE <<>>)

DirConfigsAt(path) ==
    { DirConfig(path, console, promises, magic, TRUE, TRUE) :
        console \in Has, promises \in {"absent", "inherited"},
        magic \in {"absent", "direct"} }
    \cup { DirConfig(path, "direct", "inherited", "absent", TRUE, FALSE) }
    \cup { DirConfig(path, "direct", "absent", "absent", FALSE, FALSE) }
    \cup { [DirConfig(path, "inherited", "absent", "absent", TRUE, TRUE)
               EXCEPT !.raw.overrides = << <<Entry(NoConsole, JsStr("off"))>> >>] }

\* the elements of a set of indices, in increasing order
RECURSIVE Ascending(_)
Ascending(indices) ==
    IF indices = {} THEN <<>>
    ELSE LET least == CHOOSE i \in indices : \A j \in indices : i <= j
         IN  <<least>> \o Ascending(indices \ {least})

DirWorlds ==
    UNION { LET order == Ascending(chosen)
            IN  { w \in [1..Len(order) -> UNION { DirConfigsAt(TreePaths[i]) :
                                                     i \in chosen }] :
                    \A k \in 1..Len(order) : w[k].path = TreePaths[order[k]] }
            : chosen \in { c \in SUBSET (1..Len(TreePaths)) :
                             c # {} /\ Cardinality(c) <= MaxConfigs } }

\* following extendsFrom from a path ends, after at most fuel files, at a
\* config that extends no discovered file
RECURSIVE ChainEnds(_, _, _)
ChainEnds(w, path, fuel) ==
    LET at == { k \in 1..Len(w) : w[k].path = path }
    IN  \/ at = {}
        \/ /\ fuel > 0
           /\ \A k \in at : ChainEnds(w, w[k].extendsFrom, fuel - 1)

\* the configs of a directory run whose files extend one another: every
\* config declares no-console, and extends no file or another discovered
\* config (parseRawESLintConfig resolves the relative path of extends);
\* eslint resolves no config whose extends chain comes back to it
ExtendsWorlds ==
    UNION { LET order == Ascending(chosen)
                paths == { TreePaths[i] : i \in chosen }
            IN  { w \in [1..Len(order) ->
                           { [DirConfig(TreePaths[i], "direct", "absent",
                                        "absent", TRUE, TRUE)
                                 EXCEPT !.extendsFrom = parent] :
                               i \in chosen, parent \in {NoExtends} \cup paths }] :
                    /\ \A k \in 1..Len(order) : w[k].path = TreePaths[order[k]]
                    /\ \A k \in 1..Len(order) :
                           ChainEnds(w, w[k].path, Len(order)) }
            : chosen \in { c \in SUBSET (1..Len(TreePaths)) :
                             c # {} /\ Cardinality(c) <= MaxConfigs } }

\* a config whose .oxlintrc.json gives no-console a severity that
\* normalizeSeverity rejects
BrokenConfig(path) ==
    [DirConfig(path, "direct", "absent", "absent", TRUE, TRUE)
        EXCEPT !.oxlint = <<Entry(NoConsole, JsStr("banana"))>>]

\* the configs of a directory run where loading a config can fail: every
\* config declares no-console; it loads, or it fails to load, or it has no
\* .oxlintrc.json
FailingWorlds ==
    UNION { LET order == Ascending(chosen)
            IN  { w \in [1..Len(order) ->
                           UNION { { DirConfig(TreePaths[i], "direct", "absent",
                                               "absent", TRUE, TRUE),
                                     DirConfig(TreePaths[i], "direct", "absent",
                                               "absent", FALSE, FALSE),
                                     BrokenConfig(TreePaths[i]) } : i \in chosen }] :
                    \A k \in 1..Len(order) : w[k].path = TreePaths[order[k]] }
            : chosen \in { c \in SUBSET (1..Len(TreePaths)) :
                             c # {} /\ Cardinality(c) <= MaxConfigs } }

-----------------------------------------------------------------------------
(* analyzeDirectory and generateReport, step by step *)

\* hasRulesOrOverrides looking at the top-level rules only
hasRulesOnly(config) == Len(config.raw.rules) > 0

\* hasRulesOrOverrides
hasRulesOrOverrides(config) ==
    \/ Len(config.raw.rules) > 0
    \/ \E i \in 1..Len(config.raw.overrides) : Len(config.raw.overrides[i]) > 0

\* eslintConfigs.filter(hasRulesOrOverrides)
configsWithRules == SelectSeq(configs, hasRulesOrOverrides)

\* a severity of either config of the pair that normalizeSeverity rejects
\* makes analyzeConfigPair throw
analysisThrows(config) ==
    \/ \E r \in Range(loadESLintConfig(config.resolved)) : r.severity = THROWS
    \/ \E r \in Range(loadOxlintConfigViaCommand(config.oxlint)) :
           r.severity = THROWS

\* no function is called on its own in a run of analyzeDirectory
NoCall == [fn |-> "none"]

InitRun ==
    /\ typeAwareRulesCache = NoCache
    /\ processed = {}
    /\ result = <<>>
    /\ stack = <<>>
    /\ disk = <<>>
    /\ typeAware \in BOOLEAN
    /\ pc = "analyze"
    /\ idx = 1
    /\ results = <<>>
    /\ analyzedOxlintConfigs = <<>>
    /\ eslintConfigsWithoutOxlint = <<>>
    /\ unsupportedRulesNotInOxlint = <<>>
    /\ report = <<>>
    /\ arg = NoCall
    /\ out = NoCall

\* the name sets of the registry in a directory run: every rule of the
\* catalog, or the core rule only
DirRegistries == {
    { NoConsole, OxNoFloatingPromises, OxAwaitThenable, ReactJsxKey,
      ReactNoDanger },
    { NoConsole } }

\* a directory of several configs
Init ==
    /\ cwd \in Cwds
    /\ configs \in DirWorlds
    /\ ruleNames \in DirRegistries
    /\ InitRun

\* a directory of one config, over every way of writing two rules
InitPair ==
    /\ cwd = <<"proj">>
    /\ configs \in PairWorlds
    /\ ruleNames \in Registries
    /\ InitRun

\* a directory whose configs extend one another
InitTree ==
    /\ cwd \in Cwds
    /\ configs \in ExtendsWorlds
    /\ ruleNames = { NoConsole }
    /\ InitRun

\* a directory where loading a config can fail
InitFailing ==
    /\ cwd = <<"proj">>
    /\ configs \in FailingWorlds
    /\ ruleNames = { NoConsole }
    /\ InitRun

\* the rules an override block turns off, each in one of the spellings of off
OffEntries ==
    { Entry(TsNoFloatingPromises, JsStr("off")),
      Entry(NoConsole, JsNum(0)),
      Entry(ReactJsxKey, JsArr(<<JsStr("off")>>)) }

\* the rules of an override block: one or two of them, in either order of
\* the keys
OffRuleBlocks ==
    { <<e>> : e \in OffEntries }
    \cup { <<e[1], e[2]>> : e \in { p \in OffEntries \X OffEntries :
                                      p[1].name # p[2].name } }

\* the rules of the .oxlintrc.json of such a config
ReportOxlintRules ==
    { Opt(NoConsole, console, JsStr("error"))
          \o Opt(OxNoFloatingPromises, promises, JsStr("warn"))
          \o Opt(ReactJsxKey, jsxKey, JsStr("deny")) :
        console \in {"absent", "on"}, promises \in {"absent", "on"},
        jsxKey \in {"absent", "on"} }

\* one config whose rules are all in override blocks that turn rules off
ReportWorlds ==
    { <<Config(RootConfigPath, <<>>, overrides, <<>>, TRUE, oxlint)>> :
        overrides \in UNION { [1..n -> OffRuleBlocks] : n \in 1..MaxOverrides },
        oxlint \in ReportOxlintRules }

\* a directory of one config that turns rules off for some files
InitReport ==
    /\ cwd = <<"proj">>
    /\ configs \in ReportWorlds
    /\ ruleNames = { NoConsole, OxNoFloatingPromises, OxAwaitThenable,
                     ReactJsxKey, ReactNoDanger }
    /\ InitRun

\* one iteration of the loop over configsWithRules
AnalyzeNextConfig ==
    /\ pc = "analyze"
    /\ idx <= Len(configsWithRules)
    /\ LET config == configsWithRules[idx]
       IN  IF ~config.hasOxlint
           THEN /\ eslintConfigsWithoutOxlint' =
                       Append(eslintConfigsWithoutOxlint,
                              relative(cwd, config.path))
                /\ idx' = idx + 1
                /\ UNCHANGED <<pc, results, analyzedOxlintConfigs>>
           ELSE /\ analyzedOxlintConfigs' =
                       Append(analyzedOxlintConfigs,
                              relative(cwd, oxlintPathOf(config.path)))
                /\ IF analysisThrows(config)
                   THEN /\ pc' = "threw"
                        /\ UNCHANGED <<idx, results>>
                   ELSE /\ results' =
                               Append(results,
                                      analyzeConfigPair(config, ruleNames, typeAware))
                        /\ idx' = idx + 1
                        /\ pc' = pc
                /\ UNCHANGED eslintConfigsWithoutOxlint
    /\ UNCHANGED <<disk, processed, result, stack, cwd, typeAwareRulesCache, configs, ruleNames, typeAware,
                   unsupportedRulesNotInOxlint, report, arg, out>>

\* Array.from(new Set(...)): the distinct elements in order of first occurrence
RECURSIVE dedupe(_, _)
dedupe(seen, seq) ==
    IF seq = <<>> THEN seen ELSE dedupe(SetAdd(seen, Head(seq)), Tail(seq))

\* collectUnsupported looking at the first result only
collectUnsupportedOfFirst(rs) ==
    sortStrings(dedupe(<<>>,
        Concat([i \in 1..(IF Len(rs) > 0 THEN 1 ELSE 0) |-> rs[i].unsupportedRules])))

\* Array.from(unsupportedRulesSet).sort(): the unsupported rules of all
\* results, deduplicated and sorted
collectUnsupported(rs) ==
    sortStrings(dedupe(<<>>,
        Concat([i \in 1..Len(rs) |-> rs[i].unsupportedRules])))

\* the end of analyzeDirectory
FinishAnalysis ==
    /\ pc = "analyze"
    /\ idx > Len(configsWithRules)
    /\ unsupportedRulesNotInOxlint' = collectUnsupported(results)
    /\ pc' = "analyzed"
    /\ UNCHANGED <<disk, processed, result, stack, cwd, typeAwareRulesCache, configs, ruleNames, typeAware, idx, results,
                   analyzedOxlintConfigs, eslintConfigsWithoutOxlint, report,
                   arg, out>>

\* generateReport(analysis)
GenerateReport ==
    /\ pc = "analyzed"
    /\ report' = reportLines(results, unsupportedRulesNotInOxlint)
    /\ results' = resultsAfterReport(results)
    /\ pc' = "reported"
    /\ UNCHANGED <<disk, processed, result, stack, cwd, typeAwareRulesCache, configs, ruleNames, typeAware, idx, analyzedOxlintConfigs,
                   eslintConfigsWithoutOxlint, unsupportedRulesNotInOxlint,
                   arg, out>>

Next == AnalyzeNextConfig \/ FinishAnalysis \/ GenerateReport

Spec == Init /\ [][Next]_vars

SpecTree == InitTree /\ [][Next]_vars

SpecFailing == InitFailing /\ [][Next]_vars

SpecReport == InitReport /\ [][Next]_vars

SpecPair == InitPair /\ [][Next]_vars

-----------------------------------------------------------------------------
(* The init script: the order in which it migrates the configs *)

\* configPaths.sort(): the paths of the tree in the order of their strings
sortPaths(paths) ==
    Concat([i \in 1..Len(TreePaths) |->
                SelectSeq(paths, LAMBDA x : x = TreePaths[i])])

\* the paths of the files given
pathsOf(files) == [k \in 1..Len(files) |-> files[k].path]

\* buildDependencyGraph(configPaths).get(parent) || []: the configs that
\* extend parent, in the order of configPaths
dependentsOf(files, parent) ==
    pathsOf(SelectSeq(files, LAMBDA f : f.extendsFrom = parent))

\* processConfig(configPath) and the loop over its children, on the two
\* collections processed and result
RECURSIVE processConfig(_, _, _)
RECURSIVE processChildren(_, _, _)
processConfig(files, st, configPath) ==
    IF configPath \in st.processed THEN st
    ELSE processChildren(files,
                         [processed |-> st.processed \cup {configPath},
                          result |-> Append(st.result, configPath)],
                         sortPaths(dependentsOf(files, configPath)))

processChildren(files, st, children) ==
    IF children = <<>> THEN st
    ELSE processChildren(files, processConfig(files, st, Head(children)),
                         Tail(children))

\* the configs that extend no discovered config
rootsOf(files) ==
    SelectSeq(sortPaths(pathsOf(files)),
              LAMBDA p : \E f \in Range(files) :
                             /\ f.path = p
                             /\ \/ f.extendsFrom = NoExtends
                                \/ f.extendsFrom \notin Range(pathsOf(files)))

\* the configs in the order of their paths, whatever they extend
sortByPath(files) ==
    [kind |-> "returned", value |-> sortPaths(pathsOf(files))]

\* sortByDependencies(configPaths): it has no throw
sortByDependencies(files) ==
    [kind |-> "returned",
     value |-> processChildren(files, [processed |-> {}, result |-> <<>>],
                               rootsOf(files)).result]

\* the value of the extends key of a raw ESLint config: absent, one string,
\* or an array of strings; a string is the sequence of its "/"-separated
\* segments
NoExtendsKey == [kind |-> "undefined", items |-> <<>>]

ExtendsString(target) == [kind |-> "string", items |-> <<target>>]

ExtendsArray(targets) == [kind |-> "array", items |-> targets]

\* extendsValue.startsWith("./") || extendsValue.startsWith("../")
startsWithDotSlash(target) ==
    /\ Len(target) >= 2
    /\ target[1] \in {".", ".."}

\* path.resolve(dir, target): "." stays, ".." leaves the directory, any
\* other segment enters it
RECURSIVE resolve(_, _)
resolve(dir, target) ==
    IF target = <<>> THEN dir
    ELSE IF Head(target) = "." THEN resolve(dir, Tail(target))
    ELSE IF Head(target) = ".."
         THEN resolve(IF dir = <<>> THEN dir ELSE SubSeq(dir, 1, Len(dir) - 1),
                      Tail(target))
    ELSE resolve(Append(dir, Head(target)), Tail(target))

\* the file names of the inputs that end with ".js"
JsFileNames == {".eslintrc.js", "base-config.js"}

\* `${resolvedPath}.js` for the file names of the inputs that do not
withJsAppended ==
    [name \in {".eslintrc.cjs", ".eslintrc.json", "base-config"} |->
        CASE name = ".eslintrc.cjs" -> ".eslintrc.cjs.js"
          [] name = ".eslintrc.json" -> ".eslintrc.json.js"
          [] name = "base-config" -> "base-config.js"]

\* resolvedPath.endsWith(".js") ? resolvedPath : `${resolvedPath}.js`
addJsExtension(resolvedPath) ==
    LET name == resolvedPath[Len(resolvedPath)]
    IN  IF name \in JsFileNames THEN resolvedPath
        ELSE SubSeq(resolvedPath, 1, Len(resolvedPath) - 1)
                 \o <<withJsAppended[name]>>

\* parseRawESLintConfig(configPath) on a config whose extends key is
\* extends: the first element of an array is the only one looked at, and
\* reading startsWith of the missing first element of an empty array is
\* the TypeError that the catch rethrows
parseRawESLintConfig(configPath, extends) ==
    IF extends.kind = "undefined"
    THEN [kind |-> "returned", extendsFrom |-> NoExtends]
    ELSE IF extends.items = <<>>
    THEN [kind |-> "threw", extendsFrom |-> NoExtends]
    ELSE LET extendsValue == extends.items[1]
         IN  IF startsWithDotSlash(extendsValue)
             THEN [kind |-> "returned",
                   extendsFrom |->
                       addJsExtension(
                           resolve(SubSeq(configPath, 1, Len(configPath) - 1),
                                   extendsValue))]
             ELSE [kind |-> "returned", extendsFrom |-> NoExtends]

\* a file outside the discovered configs that a config may extend
SharedBase == <<"proj", "shared", "base.js">>

MaxSorted == 3

\* the config files main hands to sortByDependencies, with what each
\* extends: nothing, a discovered config (itself included) or another file
SortInputs ==
    UNION { LET order == Ascending(chosen)
                paths == { TreePaths[i] : i \in chosen }
            IN  { w \in [1..Len(order) ->
                           [path : paths,
                            extendsFrom : {NoExtends, SharedBase} \cup paths]] :
                    \A k \in 1..Len(order) : w[k].path = TreePaths[order[k]] }
            : chosen \in { c \in SUBSET (1..Len(TreePaths)) :
                             c # {} /\ Cardinality(c) <= MaxSorted } }

-----------------------------------------------------------------------------
(* The init script: generating the .oxlintrc.json files.  A plugin list is *)
(* the set of its names (the script compares sorted copies and adds no     *)
(* name twice); a rules object is the sequence of its entries and two      *)
(* objects are deep-equal when they have the same entries.                 *)

NoDebugger == <<"no-debugger">>

OXC_DEFAULT_ENABLED_PLUGINS == {"typescript", "unicorn", "oxc"}

\* the rule names of eslint-plugin-oxlint the model has: every category,
\* and the correctness category
allOxlintRules ==
    {NoConsole, NoDebugger, ReactJsxKey, OxNoFloatingPromises}

allDefaultEnabledOxlintRules == {NoDebugger, ReactJsxKey}

\* isSupportedByOxlint of the init script: allOxlintRules.includes(ruleName)
isSupportedByInit(ruleName) == ruleName \in allOxlintRules

\* loadESLintConfig of the init script, the rules it builds from the output
\* of eslint --print-config: an @typescript-eslint rule whose base rule
\* Oxlint has takes the name of the base rule, and the base rule is dropped
loadESLintConfigOfInit(resolvedRules) ==
    LET hasBase(name) ==
            /\ Len(name) >= 2
            /\ name[1] = "@typescript-eslint"
            /\ isSupportedByInit(Tail(name))
        rulesToRemove ==
            { Tail(e.name) : e \in { x \in Range(resolvedRules) :
                                       hasBase(x.name) } }
    IN  SeqMap(LAMBDA e : [name |-> IF hasBase(e.name) THEN Tail(e.name)
                                    ELSE toOxlintPrefix(e.name),
                           severity |-> IF e.value.kind = "array"
                                        THEN normalizeSeverity(First(e.value))
                                        ELSE normalizeSeverity(e.value)],
               SelectSeq(resolvedRules,
                         LAMBDA e : e.name \notin rulesToRemove))

\* findSupportedRules(eslintRules).supported
findSupportedRules(eslintRules) ==
    SelectSeq(eslintRules, LAMBDA rule : isSupportedByInit(rule.name))

\* an .oxlintrc.json, parsed; a key the file does not have is empty
OxlintConfig(extends, plugins, rules, ignorePatterns, overrides) ==
    [exists |-> TRUE, extends |-> extends, plugins |-> plugins,
     rules |-> rules, ignorePatterns |-> ignorePatterns,
     overrides |-> overrides]

\* no .oxlintrc.json in the directory
NoOxlintConfig ==
    [exists |-> FALSE, extends |-> <<>>, plugins |-> {}, rules |-> <<>>,
     ignorePatterns |-> {}, overrides |-> <<>>]

\* the directory of a file
dirname(filePath) == SubSeq(filePath, 1, Len(filePath) - 1)

\* fs.existsSync and jsonc.parse of the .oxlintrc.json of a directory
readOxlintConfig(files, dir) ==
    IF dir \in DOMAIN files THEN files[dir] ELSE NoOxlintConfig

\* loadOxlintConfig(configPath, parentConfigPath).oxlintConfig: the file
\* over the defaults, the default plugins always among the plugins
loadOxlintConfig(file) ==
    OxlintConfig(<<>>,
                 OXC_DEFAULT_ENABLED_PLUGINS \cup file.plugins,
                 file.rules, file.ignorePatterns, file.overrides)

\* getDirectlyDefinedRules(rawConfig, allEslintRules) of the init script:
\* the rules whose name is a key of the rules block or of an override block
directRulesOf(rawConfig, allEslintRules) ==
    LET directRuleNames ==
            { toOxlintPrefix(e.name) :
                e \in Range(rawConfig.rules)
                        \cup UNION { Range(rawConfig.overrides[i].rules) :
                                       i \in 1..Len(rawConfig.overrides) } }
    IN  SelectSeq(allEslintRules, LAMBDA rule : rule.name \in directRuleNames)

\* getOxPlugin(ruleName): the segment before the first "/", react-hooks
\* being react; none for a core rule
getOxPlugin(ruleName) ==
    IF Len(ruleName) < 2 THEN {}
    ELSE IF ruleName[1] = "react-hooks" THEN {"react"} ELSE {ruleName[1]}

\* the value of a key of a rules object, undefined when it has no such key
ruleValueOf(rules, name) ==
    IF MapHas(rules, name)
    THEN rules[CHOOSE i \in 1..Len(rules) : rules[i].name = name].value
    ELSE JsUndefined

\* the loop of generateSuggestedConfig over the sorted supported rules, on
\* the plugins and rules of suggestedConfig
RECURSIVE addSuggestedRules(_, _, _)
addSuggestedRules(suggested, parent, sortedRules) ==
    IF sortedRules = <<>> THEN suggested
    ELSE LET rule == Head(sortedRules)
             ruleValue == JsStr(rule.severity)
             isDifferentFromParent ==
                 IF parent.exists
                 THEN ruleValueOf(parent.rules, rule.name) # ruleValue
                 ELSE TRUE
             isDefaultEnabledInOxlint ==
                 rule.name \in allDefaultEnabledOxlintRules
             withPlugin ==
                 [suggested EXCEPT !.plugins =
                     @ \cup (getOxPlugin(rule.name) \ parent.plugins)]
             skipped ==
                 \/ rule.severity = "off" /\ ~isDefaultEnabledInOxlint
                 \/ /\ rule.severity = "error"
                    /\ isDefaultEnabledInOxlint
                    /\ Len(rule.name) = 1
         IN  addSuggestedRules(
                 IF ~isDifferentFromParent THEN suggested
                 ELSE IF skipped THEN withPlugin
                 ELSE [withPlugin EXCEPT !.rules =
                          MapSet(@, Entry(rule.name, ruleValue))],
                 parent, Tail(sortedRules))

\* the loop over the rules of one override block of the raw config
RECURSIVE addOverrideRulesOf(_, _, _)
addOverrideRulesOf(st, topLevelRules, entries) ==
    IF entries = <<>> THEN st
    ELSE LET ruleConfig == Head(entries).value
             ruleName == toOxlintPrefix(Head(entries).name)
             ruleValue == IF ruleConfig.kind = "string" THEN ruleConfig
                          ELSE IF ruleConfig.kind = "array"
                                  /\ Len(ruleConfig.items) > 0
                          THEN ruleConfig.items[1]
                          ELSE JsUndefined
             isSameAsTopLevel ==
                 /\ MapHas(topLevelRules, ruleName)
                 /\ ruleValueOf(topLevelRules, ruleName) = ruleConfig
             shouldIncludeOverride ==
                 \/ ~isSameAsTopLevel
                 \/ ruleConfig.kind = "array" /\ Len(ruleConfig.items) > 1
                 \/ ruleValue = JsStr("off")
         IN  addOverrideRulesOf(
                 IF isSupportedByInit(ruleName) /\ shouldIncludeOverride
                 THEN [plugins |-> st.plugins \cup getOxPlugin(ruleName),
                       rules |-> MapSet(st.rules, Entry(ruleName, ruleConfig))]
                 ELSE st,
                 topLevelRules, Tail(entries))

\* the loop over the override blocks: a block is kept when one of its rules is
RECURSIVE addOverrides(_, _)
addOverrides(suggested, eslintOverrides) ==
    IF eslintOverrides = <<>> THEN suggested
    ELSE LET eslintOverride == Head(eslintOverrides)
             st == addOverrideRulesOf(
                       [plugins |-> suggested.plugins, rules |-> <<>>],
                       suggested.rules, eslintOverride.rules)
         IN  addOverrides(
                 IF st.rules = <<>> THEN suggested
                 ELSE [suggested EXCEPT
                          !.plugins = st.plugins,
                          !.overrides =
                              Append(@, [files |-> eslintOverride.files,
                                         rules |-> st.rules])],
                 Tail(eslintOverrides))

\* checkForConflicts counting a rule that Oxlint has off as no overlap
checkForConflictsWhenEnabled(eslintRules, oxlintRules) ==
    LET oxlintRuleMap == buildRuleMap(<<>>, oxlintRules)
        pairOf(eslintRule) ==
            [eslintRule |-> eslintRule,
             oxlintRule |-> MapGet(oxlintRuleMap, eslintRule.name)]
        overlaps(eslintRule) ==
            /\ isSupportedByInit(eslintRule.name)
            /\ eslintRule.severity # "off"
            /\ enabledInOxlint(oxlintRuleMap, eslintRule.name)
    IN  [duplicates |->
             SeqMap(pairOf,
                    SelectSeq(eslintRules,
                              LAMBDA r : /\ overlaps(r)
                                         /\ pairOf(r).oxlintRule.severity
                                                = r.severity)),
         conflicts |->
             SeqMap(pairOf,
                    SelectSeq(eslintRules,
                              LAMBDA r : /\ overlaps(r)
                                         /\ pairOf(r).oxlintRule.severity
                                                # r.severity))]

\* checkForConflicts(eslintRules, oxlintRules): the Oxlint rule of a name is
\* the last one of the list with that name
checkForConflicts(eslintRules, oxlintRules) ==
    LET oxlintRuleMap == buildRuleMap(<<>>, oxlintRules)
        pairOf(eslintRule) ==
            [eslintRule |-> eslintRule,
             oxlintRule |-> MapGet(oxlintRuleMap, eslintRule.name)]
        overlaps(eslintRule) ==
            /\ isSupportedByInit(eslintRule.name)
            /\ eslintRule.severity # "off"
            /\ MapHas(oxlintRuleMap, eslintRule.name)
    IN  [duplicates |->
             SeqMap(pairOf,
                    SelectSeq(eslintRules,
                              LAMBDA r : /\ overlaps(r)
                                         /\ pairOf(r).oxlintRule.severity
                                                = r.severity)),
         conflicts |->
             SeqMap(pairOf,
                    SelectSeq(eslintRules,
                              LAMBDA r : /\ overlaps(r)
                                         /\ pairOf(r).oxlintRule.severity
                                                # r.severity))]

\* the rule names of the init worlds in the order of localeCompare
InitNameOrder ==
    <<NoConsole, NoDebugger, ReactJsxKey, OxNoFloatingPromises>>

\* [...supportedRules].sort((a, b) => a.name.localeCompare(b.name))
sortByName(rules) ==
    Concat([i \in 1..Len(InitNameOrder) |->
                SelectSeq(rules, LAMBDA r : r.name = InitNameOrder[i])])

\* suggestedConfig.extends: the path from the directory of the config to the
\* .oxlintrc.json of the parent, with "./" before a path into a directory
extendsPath(currentConfigPath, parentConfigPath) ==
    LET relativePath ==
            relative(dirname(currentConfigPath),
                     Append(dirname(parentConfigPath), ".oxlintrc.json"))
    IN  IF relativePath[1] \in {"..", ".oxlintrc.json"} THEN relativePath
        ELSE <<".">> \o relativePath

\* generateSuggestedConfig(props).suggestedConfig: with a parent
\* .oxlintrc.json the plugins and the ignore patterns start empty
generateSuggestedConfig(supportedRules, config, parent) ==
    LET start ==
            OxlintConfig(
                IF parent.exists
                THEN extendsPath(config.path, config.extendsFrom) ELSE <<>>,
                IF parent.exists THEN {} ELSE OXC_DEFAULT_ENABLED_PLUGINS,
                <<>>,
                IF parent.exists THEN {} ELSE config.ignorePatterns,
                <<>>)
    IN  addOverrides(addSuggestedRules(start, parent,
                                       sortByName(supportedRules)),
                     config.raw.overrides)

\* shouldRemoveOxlintConfig(config): no top-level rule
shouldRemoveOxlintConfig(config) == Len(config.rules) = 0

\* areOxlintConfigsEqual(config1, config2): plugins and ignore patterns in
\* any order, rules and overrides deep-equal
areOxlintConfigsEqual(config1, config2) ==
    /\ config1.plugins = config2.plugins
    /\ Range(config1.rules) = Range(config2.rules)
    /\ config1.ignorePatterns = config2.ignorePatterns
    /\ Len(config1.overrides) = Len(config2.overrides)
    /\ \A i \in 1..Len(config1.overrides) :
           /\ config1.overrides[i].files = config2.overrides[i].files
           /\ Range(config1.overrides[i].rules)
                  = Range(config2.overrides[i].rules)

\* what writeOxlintConfigWithComments puts in the file: the files of an
\* override always as an array
writeOxlintConfigWithComments(config) ==
    [config EXCEPT !.overrides =
        [i \in 1..Len(config.overrides) |->
            [files |-> IF config.overrides[i].files.kind = "array"
                       THEN config.overrides[i].files
                       ELSE JsArr(<<config.overrides[i].files>>),
             rules |-> config.overrides[i].rules]]]

\* what generateOxlintConfig does for one ESLint config on the files there
\* are: the suggested config, what happens to the .oxlintrc.json of the
\* directory, and the file that is there afterwards
generateOxlintConfig(files, config) ==
    LET existingFile == readOxlintConfig(files, dirname(config.path))
        parentOxlintConfig ==
            IF config.extendsFrom = NoExtends THEN NoOxlintConfig
            ELSE readOxlintConfig(files, dirname(config.extendsFrom))
        supported ==
            findSupportedRules(loadESLintConfigOfInit(config.resolved))
        filteredSupportedRules ==
            IF parentOxlintConfig.exists
            THEN directRulesOf(config.raw, supported) ELSE supported
        suggestedConfig ==
            generateSuggestedConfig(filteredSupportedRules, config,
                                    parentOxlintConfig)
    IN  IF shouldRemoveOxlintConfig(suggestedConfig)
        THEN [suggested |-> suggestedConfig,
              op |-> IF existingFile.exists THEN "removed" ELSE "not needed",
              file |-> NoOxlintConfig]
        ELSE IF areOxlintConfigsEqual(suggestedConfig,
                                      loadOxlintConfig(existingFile))
        THEN [suggested |-> suggestedConfig, op |-> "up to date",
              file |-> existingFile]
        ELSE [suggested |-> suggestedConfig, op |-> "written",
              file |-> writeOxlintConfigWithComments(suggestedConfig)]

\* an ESLint config as the init script meets it: the module the file
\* exports with the files of each override block, the rules and the ignore
\* patterns of eslint --print-config, and the config file it extends
InitConfig(path, extendsFrom, rules, overrides, resolved, ignorePatterns) ==
    [path |-> path, extendsFrom |-> extendsFrom,
     raw |-> [rules |-> rules, overrides |-> overrides],
     resolved |-> resolved, ignorePatterns |-> ignorePatterns]

\* the rules blocks of the init worlds
InitRuleBlocks ==
    { <<>>,
      <<Entry(NoConsole, JsStr("error"))>>,
      <<Entry(NoDebugger, JsStr("error"))>>,
      <<Entry(NoDebugger, JsStr("off"))>>,
      <<Entry(ReactJsxKey, JsStr("error"))>>,
      <<Entry(NoConsole, JsStr("error")), Entry(ReactJsxKey, JsStr("warn"))>> }

\* the overrides of the init worlds: none, or one block for the test files
InitOverrides ==
    { <<>>,
      << [files |-> JsStr("*.test.js"),
          rules |-> <<Entry(NoConsole, JsStr("off"))>>] >>,
      << [files |-> JsArr(<<JsStr("*.test.js")>>),
          rules |-> <<Entry(ReactJsxKey, JsStr("warn"))>>] >> }

InitRootPath == <<"proj", ".eslintrc.js">>

InitChildPath == <<"proj", "client", ".eslintrc.js">>

\* the configs main migrates: /proj/.eslintrc.js alone, or with
\* /proj/client/.eslintrc.js that extends it or stands alone; every config
\* has a rule or an override with rules, and what a config extends is in its
\* resolved rules
InitWorlds ==
    LET roots ==
            { InitConfig(InitRootPath, NoExtends, r, o, r, i) :
                r \in InitRuleBlocks, o \in InitOverrides,
                i \in { {}, {"dist"} } }
        children(root) ==
            { InitConfig(InitChildPath, e, r, o,
                         IF e = NoExtends THEN r
                         ELSE buildRuleMap(root.raw.rules, r),
                         root.ignorePatterns) :
                e \in {NoExtends, InitRootPath},
                r \in InitRuleBlocks, o \in InitOverrides }
        kept(c) == c.raw.rules # <<>> \/ c.raw.overrides # <<>>
    IN  { <<root>> : root \in { c \in roots : kept(c) } }
            \cup UNION { { <<root, child>> :
                             child \in { c \in children(root) : kept(c) } } :
                         root \in { c \in roots : kept(c) } }

\* an .oxlintrc.json written by hand before the first run
OldOxlintConfig ==
    OxlintConfig(<<>>, {}, <<Entry(NoConsole, JsStr("warn"))>>, {}, <<>>)

\* the configs in the order of sortByDependencies
inDependencyOrder(files) ==
    LET order == sortByDependencies(files).value
    IN  [k \in 1..Len(order) |->
            CHOOSE f \in Range(files) : f.path = order[k]]

InitGenerate ==
    /\ cwd = <<"proj">>
    /\ typeAwareRulesCache = NoCache
    /\ processed = {}
    /\ result = <<>>
    /\ stack = <<>>
    /\ \E world \in InitWorlds : configs = inDependencyOrder(world)
    /\ disk \in [{dirname(InitRootPath), dirname(InitChildPath)} ->
                    {NoOxlintConfig, OldOxlintConfig}]
    /\ ruleNames = allOxlintRules
    /\ typeAware = FALSE
    /\ pc = "first run"
    /\ idx = 1
    /\ results = <<>>
    /\ analyzedOxlintConfigs = <<>>
    /\ eslintConfigsWithoutOxlint = <<>>
    /\ unsupportedRulesNotInOxlint = <<>>
    /\ report = <<>>
    /\ arg = NoCall
    /\ out = NoCall

\* one iteration of PASS 1 of main: generateOxlintConfig(sortedConfigs[i])
GenerateOxlintConfig ==
    /\ pc \in {"first run", "second run"}
    /\ idx <= Len(configs)
    /\ LET did == generateOxlintConfig(disk, configs[idx])
       IN  /\ disk' = [disk EXCEPT ![dirname(configs[idx].path)] = did.file]
           /\ report' = Append(report, [run |-> pc,
                                        path |-> configs[idx].path,
                                        op |-> did.op,
                                        suggested |-> did.suggested])
    /\ idx' = idx + 1
    /\ UNCHANGED <<cwd, typeAwareRulesCache, processed, result, stack,
                   configs, ruleNames, typeAware, pc, results,
                   analyzedOxlintConfigs, eslintConfigsWithoutOxlint,
                   unsupportedRulesNotInOxlint, arg, out>>

\* main has gone through the configs: the script ends, and is run once more
\* on the same ESLint configs
EndOfRun ==
    /\ pc \in {"first run", "second run"}
    /\ idx > Len(configs)
    /\ pc' = IF pc = "first run" THEN "second run" ELSE "done"
    /\ idx' = 1
    /\ UNCHANGED <<disk, cwd, typeAwareRulesCache, processed, result, stack,
                   configs, ruleNames, typeAware, results,
                   analyzedOxlintConfigs, eslintConfigsWithoutOxlint,
                   unsupportedRulesNotInOxlint, report, arg, out>>

NextGenerate ==
    \/ GenerateOxlintConfig
    \/ EndOfRun

SpecGenerate == InitGenerate /\ [][NextGenerate]_vars

-----------------------------------------------------------------------------
(* Calls of single functions *)

\* the variables of a run of analyzeDirectory, idle while one function is
\* called on its own
IdleRun ==
    /\ cwd = <<"proj">>
    /\ typeAwareRulesCache = NoCache
    /\ processed = {}
    /\ result = <<>>
    /\ stack = <<>>
    /\ disk = <<>>
    /\ configs = <<>>
    /\ ruleNames = {}
    /\ typeAware = FALSE
    /\ idx = 1
    /\ results = <<>>
    /\ analyzedOxlintConfigs = <<>>
    /\ eslintConfigsWithoutOxlint = <<>>
    /\ unsupportedRulesNotInOxlint = <<>>
    /\ report = <<>>

Call(fn, value) == [fn |-> fn, value |-> value]

\* the values a severity is parsed from
SeverityInputs ==
    { JsNum(n) : n \in -1..3 }
        \cup { JsStr(t) : t \in { "off", "warn", "error", "allow", "deny", "0",
                                 "1", "2", "", "banana", "Error", "OFF" } }
        \cup { JsNull, JsUndefined, JsObject, JsArr(<<>>), JsArr(<<JsNum(2)>>),
               JsArr(<<JsStr("error")>>) }

\* the longest rule name, in segments, that a function is called on
MaxSegments == 3

\* the rule names a function is called on: the segments between the "/"
NameInputs ==
    UNION { [1..n -> {"@typescript-eslint", "typescript", "eslint", "x"}] :
              n \in 1..MaxSegments }

\* the name sets of the registry a name is looked up in
NameSets ==
    { {}, { <<"x">> }, { <<"typescript", "x">> }, { <<"x", "x">> } }

\* the states of the cache, the outcomes of the fetch and the rule names
\* that getTypeAwareRules and isTypeAware are called on
TypeAwareInputs ==
    [cache : { NoCache, [present |-> TRUE, rules |-> { <<"typescript", "x">> }] },
     fetch : { FetchFailed, FetchTimedOut, FetchOutput(<<>>),
               FetchOutput(<< <<"typescript", "x">> >>),
               FetchOutput(<< <<"typescript", "await-thenable">>,
                              <<"typescript", "x">> >>) },
     name : { OxAwaitThenable, TsNoFloatingPromises, <<"typescript", "x">>,
              NoConsole }]

\* what an extends key names: parent files by relative path, with and
\* without the ".js" ending, and shareable packages
RelativeTargets ==
    { <<"..", ".eslintrc.js">>, <<".", "base-config.js">>,
      <<".", "base-config">>, <<"..", ".eslintrc.cjs">>,
      <<"..", "..", ".eslintrc.json">> }

PackageTargets == { <<"eslint:recommended">>,
                    <<"@typescript-eslint", "recommended">> }

MaxExtends == 2

ExtendsInputs ==
    {NoExtendsKey}
        \cup { ExtendsString(t) : t \in RelativeTargets \cup PackageTargets }
        \cup { ExtendsArray(ts) :
                 ts \in UNION { [1..n -> RelativeTargets \cup PackageTargets] :
                                  n \in 0..MaxExtends } }

\* the config files parseRawESLintConfig is called on
ParseInputs ==
    { [configPath |-> p, extends |-> e] :
        p \in { <<"proj", ".eslintrc.js">>,
                <<"proj", "client", ".eslintrc.js">>,
                <<"proj", "client", "src", ".eslintrc.js">> },
        e \in ExtendsInputs }

\* objects of at most two keys, each key once, over the names given
RuleObjects(names, values) ==
    {<<>>}
        \cup { <<Entry(n, v)>> : n \in names, v \in values }
        \cup { <<Entry(keys[1], v), Entry(keys[2], w)>> :
                 keys \in { k \in names \X names : k[1] # k[2] },
                 v \in values, w \in values }

\* override blocks of one rule each
OverrideLists(names, values) ==
    UNION { [1..k -> { <<Entry(n, v)>> : n \in names, v \in values }] :
              k \in 0..MaxOverrides }

\* what the three loaders are called on: the rules of eslint --print-config,
\* the module an ESLint config exports, and an .oxlintrc.json with that of
\* the parent directory
EslintRuleNames == {NoConsole, TsNoFloatingPromises, OxNoFloatingPromises}

ResolvedInputs ==
    RuleObjects(EslintRuleNames, {JsStr("error"), JsArr(<<JsStr("off")>>)})

RawInputs ==
    { [rules |-> o, overrides |-> v] :
        o \in RuleObjects(EslintRuleNames, {JsStr("error")}),
        v \in OverrideLists(EslintRuleNames,
                            {JsStr("error"), JsArr(<<JsStr("off")>>)}) }

OxlintInputs ==
    { [config |-> c, parent |-> p] :
        c \in { OxlintFile(o, v) :
                  o \in RuleObjects({NoConsole}, {JsStr("error")}),
                  v \in OverrideLists({NoConsole, OxNoFloatingPromises},
                                      {JsStr("off")}) },
        p \in {NoOxlintFile}
                 \cup { OxlintFile(o, <<>>) :
                          o \in RuleObjects({NoConsole, OxNoFloatingPromises},
                                            {JsStr("warn")}) } }

\* the values of a rule in the rules block of a raw config: the severity
\* tokens alone and as the first element of an array with an option
RawRuleValues ==
    LET tokens == { JsNum(n) : n \in -1..3 }
                      \cup { JsStr(t) : t \in { "off", "warn", "error",
                                                "allow", "deny", "0", "1",
                                                "2", "", "banana", "Error" } }
                      \cup { JsNull, JsUndefined, JsObject }
    IN  tokens \cup { JsArr(<<t, JsStr("always")>>) : t \in tokens }
               \cup { JsArr(<<>>) }

\* the two rule lists analyzeDuplicates hands to checkForConflicts: the
\* directly defined ESLint rules, and the rules parseRawOxlintRules read
ConflictInputs ==
    LET severities == {"off", "warn", "error"}
        eslintRule == [name : {NoConsole, NoDebugger, NoMagicNumbers},
                       severity : severities]
        oxlintRule == [name : {NoConsole, NoDebugger}, severity : severities]
    IN  [eslintRules : UNION { [1..n -> eslintRule] : n \in 0..2 },
         oxlintRules : UNION { [1..n -> oxlintRule] : n \in 0..2 }]

InitFn ==
    /\ IdleRun
    /\ pc = "call"
    /\ out = NoCall
    /\ \/ \E w \in SortInputs : arg = Call("sortByDependencies", w)
       \/ \E v \in SeverityInputs : arg = Call("normalizeSeverity", v)
       \/ \E x \in NameInputs : arg = Call("normalizeOxlintRuleName", x)
       \/ \E t \in TypeAwareInputs : arg = Call("getTypeAwareRules", t)
       \/ \E x \in NameInputs, names \in NameSets :
              arg = Call("isSupportedByOxlint", [names |-> names, name |-> x])
       \/ \E f \in ParseInputs : arg = Call("parseRawESLintConfig", f)
       \/ \E v \in RawRuleValues : arg = Call("getSeverity", v)
       \/ \E lists \in ConflictInputs :
              arg = Call("checkForConflicts", lists)
       \/ \E o \in ResolvedInputs : arg = Call("loadESLintConfig", o)
       \/ \E raw \in RawInputs : arg = Call("getDirectlyDefinedRules", raw)
       \/ \E files \in OxlintInputs : arg = Call("parseRawOxlintRules", files)

\* main: sortByDependencies(configsWithRules)
CallSortByDependencies ==
    /\ pc = "call"
    /\ arg.fn = "sortByDependencies"
    /\ out' = sortByDependencies(arg.value)
    /\ pc' = "returned"
    /\ UNCHANGED <<disk, processed, result, stack, cwd, typeAwareRulesCache, configs, ruleNames, typeAware, idx, results,
                   analyzedOxlintConfigs, eslintConfigsWithoutOxlint,
                   unsupportedRulesNotInOxlint, report, arg>>

\* normalizeSeverity(severity): the error it throws names the value
CallNormalizeSeverity ==
    /\ pc = "call"
    /\ arg.fn = "normalizeSeverity"
    /\ out' = IF normalizeSeverity(arg.value) = THROWS
              THEN [kind |-> "threw", value |-> arg.value]
              ELSE [kind |-> "returned", value |-> normalizeSeverity(arg.value)]
    /\ pc' = "returned"
    /\ UNCHANGED <<disk, processed, result, stack, cwd, typeAwareRulesCache, configs, ruleNames, typeAware, idx, results,
                   analyzedOxlintConfigs, eslintConfigsWithoutOxlint,
                   unsupportedRulesNotInOxlint, report, arg>>

\* normalizeOxlintRuleName(ruleName)
CallNormalizeOxlintRuleName ==
    /\ pc = "call"
    /\ arg.fn = "normalizeOxlintRuleName"
    /\ out' = [kind |-> "returned", value |-> normalizeOxlintRuleName(arg.value)]
    /\ pc' = "returned"
    /\ UNCHANGED <<disk, processed, result, stack, cwd, typeAwareRulesCache, configs, ruleNames, typeAware, idx, results,
                   analyzedOxlintConfigs, eslintConfigsWithoutOxlint,
                   unsupportedRulesNotInOxlint, report, arg>>

\* registry.isSupportedByOxlint(ruleName)
CallIsSupportedByOxlint ==
    /\ pc = "call"
    /\ arg.fn = "isSupportedByOxlint"
    /\ out' = [kind |-> "returned",
               value |-> isSupportedByOxlint(arg.value.names, arg.value.name)]
    /\ pc' = "returned"
    /\ UNCHANGED <<disk, processed, result, stack, cwd, typeAwareRulesCache, configs, ruleNames, typeAware, idx, results,
                   analyzedOxlintConfigs, eslintConfigsWithoutOxlint,
                   unsupportedRulesNotInOxlint, report, arg>>

\* registry.isTypeAware(ruleName), with the getTypeAwareRules() it calls
CallGetTypeAwareRules ==
    /\ pc = "call"
    /\ arg.fn = "getTypeAwareRules"
    /\ LET got == getTypeAwareRulesFrom(arg.value.cache, arg.value.fetch)
       IN  out' = IF got.kind = "threw"
                  THEN [kind |-> "threw", rules |-> {}, isTypeAware |-> FALSE]
                  ELSE [kind |-> "returned", rules |-> got.rules,
                        isTypeAware |->
                            normalizeOxlintRuleName(arg.value.name) \in got.rules]
    /\ pc' = "returned"
    /\ UNCHANGED <<disk, processed, result, stack, cwd, typeAwareRulesCache, configs, ruleNames, typeAware, idx, results,
                   analyzedOxlintConfigs, eslintConfigsWithoutOxlint,
                   unsupportedRulesNotInOxlint, report, arg>>

\* parseRawESLintConfig(configPath)
CallParseRawESLintConfig ==
    /\ pc = "call"
    /\ arg.fn = "parseRawESLintConfig"
    /\ out' = parseRawESLintConfig(arg.value.configPath, arg.value.extends)
    /\ pc' = "returned"
    /\ UNCHANGED <<disk, processed, result, stack, cwd, typeAwareRulesCache, configs, ruleNames, typeAware, idx, results,
                   analyzedOxlintConfigs, eslintConfigsWithoutOxlint,
                   unsupportedRulesNotInOxlint, report, arg>>

\* loadESLintConfig(configPath): the rules it builds from the output of
\* eslint --print-config
CallLoadESLintConfig ==
    /\ pc = "call"
    /\ arg.fn = "loadESLintConfig"
    /\ out' = [kind |-> "returned", value |-> loadESLintConfig(arg.value)]
    /\ pc' = "returned"
    /\ UNCHANGED <<disk, processed, result, stack, cwd, typeAwareRulesCache,
                   configs, ruleNames, typeAware, idx, results,
                   analyzedOxlintConfigs, eslintConfigsWithoutOxlint,
                   unsupportedRulesNotInOxlint, report, arg>>

\* getDirectlyDefinedRules(rawConfig)
CallGetDirectlyDefinedRules ==
    /\ pc = "call"
    /\ arg.fn = "getDirectlyDefinedRules"
    /\ out' = [kind |-> "returned",
               value |-> getDirectlyDefinedRules(arg.value)]
    /\ pc' = "returned"
    /\ UNCHANGED <<disk, processed, result, stack, cwd, typeAwareRulesCache,
                   configs, ruleNames, typeAware, idx, results,
                   analyzedOxlintConfigs, eslintConfigsWithoutOxlint,
                   unsupportedRulesNotInOxlint, report, arg>>

\* parseRawOxlintRules(configPath, parentConfigPath)
CallParseRawOxlintRules ==
    /\ pc = "call"
    /\ arg.fn = "parseRawOxlintRules"
    /\ out' = [kind |-> "returned",
               value |-> parseRawOxlintRules(arg.value.config,
                                             arg.value.parent)]
    /\ pc' = "returned"
    /\ UNCHANGED <<disk, processed, result, stack, cwd, typeAwareRulesCache,
                   configs, ruleNames, typeAware, idx, results,
                   analyzedOxlintConfigs, eslintConfigsWithoutOxlint,
                   unsupportedRulesNotInOxlint, report, arg>>

\* getSeverity(ruleValue) inside getDirectlyDefinedRules: it has no throw
CallGetSeverity ==
    /\ pc = "call"
    /\ arg.fn = "getSeverity"
    /\ out' = [kind |-> "returned", value |-> getSeverity(arg.value)]
    /\ pc' = "returned"
    /\ UNCHANGED <<disk, processed, result, stack, cwd, typeAwareRulesCache,
                   configs, ruleNames, typeAware, idx, results,
                   analyzedOxlintConfigs, eslintConfigsWithoutOxlint,
                   unsupportedRulesNotInOxlint, report, arg>>

\* checkForConflicts(directlyDefinedRules, finalOxlintRules)
CallCheckForConflicts ==
    /\ pc = "call"
    /\ arg.fn = "checkForConflicts"
    /\ out' = [kind |-> "returned",
               value |-> checkForConflicts(arg.value.eslintRules,
                                           arg.value.oxlintRules)]
    /\ pc' = "returned"
    /\ UNCHANGED <<disk, processed, result, stack, cwd, typeAwareRulesCache,
                   configs, ruleNames, typeAware, idx, results,
                   analyzedOxlintConfigs, eslintConfigsWithoutOxlint,
                   unsupportedRulesNotInOxlint, report, arg>>

NextFn ==
    \/ CallSortByDependencies
    \/ CallNormalizeSeverity
    \/ CallNormalizeOxlintRuleName
    \/ CallIsSupportedByOxlint
    \/ CallGetTypeAwareRules
    \/ CallParseRawESLintConfig
    \/ CallLoadESLintConfig
    \/ CallGetDirectlyDefinedRules
    \/ CallParseRawOxlintRules
    \/ CallGetSeverity
    \/ CallCheckForConflicts

SpecFn == InitFn /\ [][NextFn]_vars

-----------------------------------------------------------------------------
(* sortByDependencies, one call of processConfig at a time *)

\* the loop over children without its step to the next child
sameChildren(children) == children

\* for (const child of children): what is left after one child
restOf(children) == Tail(children)

InitSort ==
    /\ IdleRun
    /\ pc = "call"
    /\ \E w \in SortInputs : arg = Call("sortByDependencies", w)
    /\ out = NoCall

\* the call, up to the loop over the sorted configs that starts
\* processConfig from the roots
StartSort ==
    /\ pc = "call"
    /\ arg.fn = "sortByDependencies"
    /\ stack' = <<rootsOf(arg.value)>>
    /\ pc' = "sorting"
    /\ UNCHANGED <<disk, processed, result, cwd, typeAwareRulesCache, configs,
                   ruleNames, typeAware, idx, results, analyzedOxlintConfigs,
                   eslintConfigsWithoutOxlint, unsupportedRulesNotInOxlint,
                   report, arg, out>>

\* processConfig(configPath) for the next config of the innermost loop: it
\* returns at once for a processed config, otherwise it adds the config to
\* processed and result and starts the loop over its sorted dependents
ProcessConfig ==
    /\ pc = "sorting"
    /\ stack # <<>>
    /\ Head(stack) # <<>>
    /\ LET configPath == Head(Head(stack))
           rest == <<restOf(Head(stack))>> \o Tail(stack)
       IN  IF configPath \in processed
           THEN /\ stack' = rest
                /\ UNCHANGED <<processed, result>>
           ELSE /\ processed' = processed \cup {configPath}
                /\ result' = Append(result, configPath)
                /\ stack' = <<sortPaths(dependentsOf(arg.value, configPath))>>
                                \o rest
    /\ UNCHANGED <<disk, cwd, typeAwareRulesCache, configs, ruleNames, typeAware,
                   pc, idx, results, analyzedOxlintConfigs,
                   eslintConfigsWithoutOxlint, unsupportedRulesNotInOxlint,
                   report, arg, out>>

\* the loop over the dependents of a config is through: processConfig
\* returns to the loop it was called from
ReturnFromConfig ==
    /\ pc = "sorting"
    /\ Len(stack) > 1
    /\ Head(stack) = <<>>
    /\ stack' = Tail(stack)
    /\ UNCHANGED <<disk, processed, result, cwd, typeAwareRulesCache, configs,
                   ruleNames, typeAware, pc, idx, results,
                   analyzedOxlintConfigs, eslintConfigsWithoutOxlint,
                   unsupportedRulesNotInOxlint, report, arg, out>>

\* the loop over the roots is through: return result
ReturnSorted ==
    /\ pc = "sorting"
    /\ stack = << <<>> >>
    /\ stack' = <<>>
    /\ out' = [kind |-> "returned", value |-> result]
    /\ pc' = "returned"
    /\ UNCHANGED <<disk, processed, result, cwd, typeAwareRulesCache, configs,
                   ruleNames, typeAware, idx, results, analyzedOxlintConfigs,
                   eslintConfigsWithoutOxlint, unsupportedRulesNotInOxlint,
                   report, arg>>

NextSort ==
    \/ StartSort
    \/ ProcessConfig
    \/ ReturnFromConfig
    \/ ReturnSorted

SpecSort == InitSort /\ [][NextSort]_vars

\* the call is not suspended: it has no await
SpecSortFair == SpecSort /\ WF_vars(NextSort)

-----------------------------------------------------------------------------
(* isTypeAware queries of one process, one after the other *)

\* typeAwareRulesCache after a call of getTypeAwareRules() that stores the
\* fetched set only
typeAwareRulesCacheFetchedOnly(cache, fetch) ==
    IF ~cache.present /\ fetch.kind = "output" /\ fetchedRules(fetch) # {}
    THEN [present |-> TRUE, rules |-> fetchedRules(fetch)]
    ELSE cache

\* typeAwareRulesCache after a call of getTypeAwareRules(): what was cached
\* stays, otherwise the fetched set or the fallback is stored
typeAwareRulesCacheAfter(cache, fetch) ==
    IF cache.present THEN cache
    ELSE IF fetch.kind = "output" /\ fetchedRules(fetch) # {}
    THEN [present |-> TRUE, rules |-> fetchedRules(fetch)]
    ELSE [present |-> TRUE, rules |-> TYPE_AWARE_RULES_FALLBACK]

MaxQueries == 3

\* the queries of a run: the rule name asked for and what the docs page
\* would answer if it were fetched at that moment
QueryInputs ==
    [name : { OxAwaitThenable, <<"@typescript-eslint", "x">> },
     fetch : { FetchFailed, FetchOutput(<<>>),
               FetchOutput(<< <<"typescript", "x">> >>),
               FetchOutput(<< <<"typescript", "await-thenable">>,
                              <<"typescript", "x">> >>) }]

InitQueries ==
    /\ IdleRun
    /\ pc = "call"
    /\ \E n \in 1..MaxQueries :
           \E queries \in [1..n -> QueryInputs] :
               arg = Call("isTypeAware", queries)
    /\ out = [kind |-> "answers", answers |-> <<>>]

\* registry.isTypeAware(ruleName): the next query of the run, with the
\* getTypeAwareRules() it calls; the fetch is started when nothing is cached
QueryIsTypeAware ==
    /\ pc = "call"
    /\ arg.fn = "isTypeAware"
    /\ LET query == arg.value[Len(out.answers) + 1]
           rules == getTypeAwareRulesFrom(typeAwareRulesCache,
                                          query.fetch).rules
       IN  /\ out' = [out EXCEPT !.answers =
                         Append(@, [name |-> query.name,
                                    fetched |-> ~typeAwareRulesCache.present,
                                    rules |-> rules,
                                    isTypeAware |->
                                        normalizeOxlintRuleName(query.name)
                                            \in rules])]
           /\ typeAwareRulesCache' =
                  typeAwareRulesCacheAfter(typeAwareRulesCache, query.fetch)
    /\ pc' = IF Len(out.answers) + 1 = Len(arg.value)
             THEN "returned" ELSE "call"
    /\ UNCHANGED <<disk, processed, result, stack, cwd, configs, ruleNames, typeAware, idx, results,
                   analyzedOxlintConfigs, eslintConfigsWithoutOxlint,
                   unsupportedRulesNotInOxlint, report, arg>>

NextQueries == QueryIsTypeAware

SpecQueries == InitQueries /\ [][NextQueries]_vars

-----------------------------------------------------------------------------
(* What the claims are stated over *)

\* the config a result was computed from
ConfigOf(r) ==
    CHOOSE c \in Range(configs) : relative(cwd, c.path) = r.eslintConfigPath

Occurrences(seq, x) == Cardinality({ i \in 1..Len(seq) : seq[i] = x })

\* the entries of all override blocks of a config
OverrideEntries(c) == UNION { Range(c.raw.overrides[i]) :
                                i \in 1..Len(c.raw.overrides) }

\* the Oxlint rule set has the name with a severity other than off
OxlintEnables(c, name) ==
    \E e \in Range(c.oxlint) :
        /\ e.name = name
        /\ e.value.kind \in {"string", "array"}
        /\ normalizeSeverity(IF e.value.kind = "array" THEN First(e.value)
                             ELSE e.value) # "off"

\* the rule passes the test of a candidate: supported by the registry, not
\* skipped for type-awareness, enabled in the Oxlint rule set
Covered(c, name) ==
    /\ isSupportedByOxlint(ruleNames, name)
    /\ ~(~typeAware /\ isTypeAware(name))
    /\ OxlintEnables(c, name)

\* the rules the resolved ESLint config enables
ResolvedEnabled(c) ==
    { toOxlintPrefix(e.name) : e \in
        { x \in Range(c.resolved) :
            normalizeSeverity(IF x.value.kind = "array" THEN First(x.value)
                              ELSE x.value) # "off" } }

\* the names declared anywhere in the file: rules block and override blocks
DeclaredNames(c) ==
    { toOxlintPrefix(e.name) : e \in Range(c.raw.rules) \cup OverrideEntries(c) }

\* the names the file declares at its top level with any severity, or in an
\* override block with a severity other than off
DirectNames(c) ==
    { toOxlintPrefix(e.name) : e \in Range(c.raw.rules) }
    \cup { toOxlintPrefix(e.name) : e \in
             { x \in OverrideEntries(c) : getSeverity(x.value) # "off" } }

\* the rules that are enabled for a config, directly or through extends
EnabledRules(c) ==
    { d.name : d \in { x \in Range(getDirectlyDefinedRules(c.raw)) :
                         x.severity # "off" } }
    \cup (ResolvedEnabled(c) \ DirectNames(c))

-----------------------------------------------------------------------------
(* C1 *)

\* C1: every directly defined rule of a config gets exactly one outcome:
\* off - in no list; unsupported by the registry - once in unsupportedRules;
\* else type-aware with typeAware false - in no list; else enabled in the
\* Oxlint rule set - once in rulesToRemove; else once in unsupportedRules.
C1_DirectRuleOutcome ==
    \A k \in 1..Len(results) :
        LET r == results[k]
            c == ConfigOf(r)
        IN  \A d \in Range(getDirectlyDefinedRules(c.raw)) :
                LET e == toEslintName(d.name)
                    inRemove == Occurrences(r.rulesToRemove, e)
                    inUnsupported == Occurrences(r.unsupportedRules, e)
                    inInherited == Occurrences(r.inheritedRulesToDisable, e)
                IN  /\ inInherited = 0
                    /\ IF d.severity = "off"
                       THEN inRemove = 0 /\ inUnsupported = 0
                       ELSE IF ~isSupportedByOxlint(ruleNames, d.name)
                       THEN inRemove = 0 /\ inUnsupported = 1
                       ELSE IF ~typeAware /\ isTypeAware(d.name)
                       THEN /\ inRemove = 0 /\ inUnsupported = 0
                            /\ Occurrences(r.redundantOffRules, e) = 0
                       ELSE IF OxlintEnables(c, d.name)
                       THEN inRemove = 1 /\ inUnsupported = 0
                       ELSE inRemove = 0 /\ inUnsupported = 1

\* a config with a removable direct rule whose two severities differ, next
\* to a direct rule that is unsupported
C1_Witness ==
    \E k \in 1..Len(results) :
        LET r == results[k]
            c == ConfigOf(r)
        IN  /\ r.unsupportedRules # <<>>
            /\ \E d \in Range(getDirectlyDefinedRules(c.raw)) :
                   /\ toEslintName(d.name) \in Range(r.rulesToRemove)
                   /\ d.severity = "warn"
                   /\ \E e \in Range(c.oxlint) :
                          e.name = d.name /\ e.value = JsStr("deny")

-----------------------------------------------------------------------------
(* C2 *)

\* C2 as stated: a rule whose name the file declares anywhere, at top level
\* or in an override block and with any severity, is never in
\* inheritedRulesToDisable, which holds exactly the covered rules the
\* resolved config enables and the file declares nowhere.
C2_Original ==
    \A k \in 1..Len(results) :
        LET r == results[k]
            c == ConfigOf(r)
        IN  Range(r.inheritedRulesToDisable) =
                { toEslintName(n) : n \in
                    { m \in ResolvedEnabled(c) \ DeclaredNames(c) : Covered(c, m) } }

\* C2, amended: inheritedRulesToDisable holds exactly the covered rules that
\* the resolved config enables and that are not directly defined, a rule
\* being directly defined when the file declares it at top level with any
\* severity or in an override block with a severity other than off.  A rule
\* the file only sets to off in override blocks is not directly defined.
C2_InheritedRules ==
    \A k \in 1..Len(results) :
        LET r == results[k]
            c == ConfigOf(r)
        IN  Range(r.inheritedRulesToDisable) =
                { toEslintName(n) : n \in
                    { m \in ResolvedEnabled(c) \ DirectNames(c) : Covered(c, m) } }

\* a rule that an override block sets to off and that extends enables is
\* in inheritedRulesToDisable, next to a rule that an override enables and
\* that therefore is not
C2_Witness ==
    \E k \in 1..Len(results) :
        LET r == results[k]
            c == ConfigOf(r)
        IN  /\ \E n \in DeclaredNames(c) \ DirectNames(c) :
                   toEslintName(n) \in Range(r.inheritedRulesToDisable)
            /\ \E j \in 1..Len(results) :
                   \E n \in DirectNames(ConfigOf(results[j]))
                              \cap ResolvedEnabled(ConfigOf(results[j])) :
                       /\ Covered(ConfigOf(results[j]), n)
                       /\ toEslintName(n) \notin
                              Range(results[j].inheritedRulesToDisable)

-----------------------------------------------------------------------------
(* C3 *)

\* the value sets a rule to off, as getOffRulesFromOverrides reads it
SetsOff(value) ==
    LET severity == IF value.kind = "array" THEN First(value) ELSE value
    IN  severity \in {JsStr("off"), JsStr("0"), JsNum(0)}

\* C3: redundantOffRules holds exactly the covered rules that at least one
\* override block of the file sets to off; a rule that only the top level
\* sets to off is never in it.
C3_RedundantOffRules ==
    \A k \in 1..Len(results) :
        LET r == results[k]
            c == ConfigOf(r)
            offInOverrides ==
                { toOxlintPrefix(e.name) : e \in
                    { x \in OverrideEntries(c) : SetsOff(x.value) } }
            offAtTopOnly ==
                { toOxlintPrefix(e.name) : e \in
                    { x \in Range(c.raw.rules) : getSeverity(x.value) = "off" } }
                \ offInOverrides
        IN  /\ Range(r.redundantOffRules) =
                   { toEslintName(n) : n \in
                       { m \in offInOverrides : Covered(c, m) } }
            /\ \A n \in offAtTopOnly :
                   toEslintName(n) \notin Range(r.redundantOffRules)

\* a config with a redundant off rule, and with a covered rule that only
\* its top level sets to off
C3_Witness ==
    \E k \in 1..Len(results) :
        LET r == results[k]
            c == ConfigOf(r)
        IN  /\ r.redundantOffRules # <<>>
            /\ \E e \in Range(c.raw.rules) :
                   /\ getSeverity(e.value) = "off"
                   /\ Covered(c, toOxlintPrefix(e.name))
                   /\ toEslintName(toOxlintPrefix(e.name))
                          \notin Range(r.redundantOffRules)

-----------------------------------------------------------------------------
(* C4 *)

\* C4: in the result of every config a rule name is in at most one of
\* rulesToRemove, inheritedRulesToDisable and unsupportedRules, and at most
\* once in each of them.
C4_AtMostOneCategory ==
    \A k \in 1..Len(results) :
        LET r == results[k]
            all == r.rulesToRemove \o r.inheritedRulesToDisable
                       \o r.unsupportedRules
        IN  \A i, j \in 1..Len(all) : all[i] = all[j] => i = j

-----------------------------------------------------------------------------
(* C5 *)

\* C5 as stated: a name in redundantOffRules is in none of rulesToRemove,
\* inheritedRulesToDisable and unsupportedRules of the same config.
C5_Original ==
    \A k \in 1..Len(results) :
        Range(results[k].redundantOffRules)
            \cap (Range(results[k].rulesToRemove)
                    \cup Range(results[k].inheritedRulesToDisable)
                    \cup Range(results[k].unsupportedRules)) = {}

\* C5, amended: a name in redundantOffRules is never in unsupportedRules of
\* the same config; it is also in rulesToRemove or inheritedRulesToDisable
\* exactly when the rule is enabled for that config, by another block of
\* the file or through extends.
C5_RedundantOffOverlap ==
    \A k \in 1..Len(results) :
        LET r == results[k]
            c == ConfigOf(r)
        IN  \A e \in Range(r.redundantOffRules) :
                /\ e \notin Range(r.unsupportedRules)
                /\ (e \in Range(r.rulesToRemove)
                          \cup Range(r.inheritedRulesToDisable))
                     <=> (toOxlintPrefix(e) \in EnabledRules(c))

\* a config with a redundant off rule that is also a rule to remove, as in
\* the repository's reduce fixture
C5_Witness ==
    \E k \in 1..Len(results) :
        Range(results[k].redundantOffRules)
            \cap Range(results[k].rulesToRemove) # {}

-----------------------------------------------------------------------------
(* C6 *)

\* the enabled rules of a config that belong to a plugin, by display name
EnabledOfPlugin(c, plugin) ==
    { e \in { toEslintName(n) : n \in EnabledRules(c) } :
        getPluginPrefix(e) = plugin }

\* C6: a plugin is in pluginsToDisable exactly when the config has an
\* enabled rule of the plugin and every enabled rule of the plugin is in
\* rulesToRemove or inheritedRulesToDisable.
C6_PluginsToDisable ==
    \A k \in 1..Len(results) :
        LET r == results[k]
            c == ConfigOf(r)
            removable == Range(r.rulesToRemove)
                             \cup Range(r.inheritedRulesToDisable)
            plugins == { getPluginPrefix(toEslintName(n)) : n \in EnabledRules(c) }
                           \ {NoPlugin}
        IN  /\ Range(r.pluginsToDisable) =
                   { p \in plugins : EnabledOfPlugin(c, p) \subseteq removable }
            /\ \A i, j \in 1..Len(r.pluginsToDisable) :
                   r.pluginsToDisable[i] = r.pluginsToDisable[j] => i = j

\* a plugin whose two enabled rules are both removable is disabled
C6_Witness ==
    \E k \in 1..Len(results) :
        LET r == results[k]
            c == ConfigOf(r)
        IN  \E p \in Range(r.pluginsToDisable) :
                Cardinality(EnabledOfPlugin(c, p)) = 2

\* a plugin with a removable rule and a rule that is not removable is kept
C6_WitnessKept ==
    \E k \in 1..Len(results) :
        LET r == results[k]
            c == ConfigOf(r)
        IN  \E e \in Range(r.rulesToRemove) \cup Range(r.inheritedRulesToDisable) :
                /\ getPluginPrefix(e) # NoPlugin
                /\ getPluginPrefix(e) \notin Range(r.pluginsToDisable)
                /\ Cardinality(EnabledOfPlugin(c, getPluginPrefix(e))) = 2

-----------------------------------------------------------------------------
(* C7 *)

\* the names a result suggests to remove or to disable
Removable(r) == Range(r.rulesToRemove) \cup Range(r.inheritedRulesToDisable)

\* C7: for the same configs and registry the names to remove or disable
\* with typeAware false are a subset of those with typeAware true, and the
\* two sets differ only by type-aware rules.
C7_TypeAwareMonotone ==
    \A k \in 1..Len(results) :
        LET r == results[k]
            other == analyzeConfigPair(ConfigOf(r), ruleNames, ~typeAware)
            without == IF typeAware THEN Removable(other) ELSE Removable(r)
            with == IF typeAware THEN Removable(r) ELSE Removable(other)
        IN  /\ without \subseteq with
            /\ \A e \in with \ without : isTypeAware(e)

\* a run without type-aware linting that suggests one rule and leaves out a
\* type-aware rule that the run with it suggests
C7_Witness ==
    /\ ~typeAware
    /\ \E k \in 1..Len(results) :
           /\ Removable(results[k]) # {}
           /\ Removable(analyzeConfigPair(ConfigOf(results[k]), ruleNames, TRUE))
                  \ Removable(results[k]) # {}

-----------------------------------------------------------------------------
(* C8 *)

\* the four lists of a result
Classified(r) ==
    Range(r.rulesToRemove) \cup Range(r.inheritedRulesToDisable)
        \cup Range(r.redundantOffRules) \cup Range(r.unsupportedRules)

\* the rules the report prints in the sections given
Printed(sections) ==
    { report[i].rule : i \in { j \in 1..Len(report) :
                                 /\ report[j].section \in sections
                                 /\ report[j].rule # <<>> } }

\* C8: with typeAware false a supported type-aware rule is in no list of any
\* result and in neither the to-remove sections nor the still-needed list
\* of the report; with typeAware true such a rule, enabled in ESLint and in
\* Oxlint, is to remove when directly defined and to disable when inherited.
C8_TypeAwareRules ==
    /\ ~typeAware =>
           \A e \in UNION { Classified(results[k]) : k \in 1..Len(results) }
                      \cup Printed({"to-remove", "inherited-to-disable",
                                    "still-needed"}) :
               ~(isSupportedByOxlint(ruleNames, e) /\ isTypeAware(e))
    /\ typeAware =>
           \A k \in 1..Len(results) :
               LET r == results[k]
                   c == ConfigOf(r)
               IN  \A n \in EnabledRules(c) :
                       /\ isSupportedByOxlint(ruleNames, n)
                       /\ isTypeAware(n)
                       /\ OxlintEnables(c, n)
                       => IF n \in DirectNames(c)
                          THEN toEslintName(n) \in Range(r.rulesToRemove)
                          ELSE toEslintName(n) \in Range(r.inheritedRulesToDisable)

\* a report without type-aware linting, on a config that enables a
\* supported type-aware rule which Oxlint enables too, next to a rule that
\* is printed
C8_Witness ==
    /\ ~typeAware
    /\ pc = "reported"
    /\ Printed({"to-remove", "inherited-to-disable"}) # {}
    /\ \E k \in 1..Len(results) :
           \E n \in EnabledRules(ConfigOf(results[k])) :
               /\ isSupportedByOxlint(ruleNames, n)
               /\ isTypeAware(n)
               /\ OxlintEnables(ConfigOf(results[k]), n)

-----------------------------------------------------------------------------
(* C9 *)

\* C9: an enabled rule that the registry does not support is in the
\* unsupportedRules of its config and, once the analysis has returned, in
\* unsupportedRulesNotInOxlint and in the still-needed list of the report;
\* no result has it to remove, to disable or as a redundant off rule.
C9_UnsupportedRules ==
    \A k \in 1..Len(results) :
        \A n \in EnabledRules(ConfigOf(results[k])) :
            ~isSupportedByOxlint(ruleNames, n) =>
                LET e == toEslintName(n)
                IN  /\ e \in Range(results[k].unsupportedRules)
                    /\ pc \in {"analyzed", "reported"} =>
                           e \in Range(unsupportedRulesNotInOxlint)
                    /\ pc = "reported" => e \in Printed({"still-needed"})
                    /\ \A j \in 1..Len(results) :
                           e \notin Range(results[j].rulesToRemove)
                                      \cup Range(results[j].inheritedRulesToDisable)
                                      \cup Range(results[j].redundantOffRules)

\* a report on two analyzed configs, the second of which enables an
\* unsupported rule that the first does not
C9_Witness ==
    /\ pc = "reported"
    /\ Len(results) = 2
    /\ \E n \in EnabledRules(ConfigOf(results[2]))
                  \ EnabledRules(ConfigOf(results[1])) :
           ~isSupportedByOxlint(ruleNames, n)

-----------------------------------------------------------------------------
(* C10 *)

\* the directory of the config that the report names by a path relative to
\* the working directory
DirOf(printed) ==
    LET path == (CHOOSE c \in Range(configs) :
                     relative(cwd, c.path) = printed).path
    IN  SubSeq(path, 1, Len(path) - 1)

\* the directory of config is a descendant of the directory of above
Below(config, above) ==
    /\ Len(DirOf(config)) > Len(DirOf(above))
    /\ SubSeq(DirOf(config), 1, Len(DirOf(above))) = DirOf(above)

\* the lines of the two sections that suggest a rule under a config
Suggestions ==
    { i \in 1..Len(report) :
        /\ report[i].section \in {"to-remove", "inherited-to-disable"}
        /\ report[i].rule # <<>> }

\* C10: a rule that the report prints under a config, in the to-remove or
\* the inherited-to-disable section, is not printed again in either section
\* under a config of a descendant directory.
C10_AncestorDeduplication ==
    \A i, j \in Suggestions :
        report[i].rule = report[j].rule
            => ~Below(report[j].config, report[i].config)

\* the same, in the runs whose working directory is not inside the
\* analyzed directory
C10_FromOutside ==
    cwd \in { <<"proj">>, <<"work">> } => C10_AncestorDeduplication

-----------------------------------------------------------------------------
(* C11 *)

\* the plugins that some result has to disable
AllPluginsToDisable ==
    UNION { Range(results[k].pluginsToDisable) : k \in 1..Len(results) }

\* C11: the report prints no rule of a plugin that some analyzed config has
\* to disable, neither in the to-remove section, nor in the
\* inherited-to-disable section, nor in the redundant-off section, nor in
\* the still-needed list.
C11_PluginRulesFiltered ==
    \A e \in Printed({"to-remove", "inherited-to-disable", "redundant-off",
                      "still-needed"}) :
        getPluginPrefix(e) \notin AllPluginsToDisable

\* the part of C11 that the filter of generateReport covers: the to-remove
\* and the inherited-to-disable sections
C11_FilteredSections ==
    \A e \in Printed({"to-remove", "inherited-to-disable"}) :
        getPluginPrefix(e) \notin AllPluginsToDisable

-----------------------------------------------------------------------------
(* C12 *)

\* C12: the result of a config that extends another discovered config is
\* appended to results after the result of the config it extends.
C12_ParentsFirst ==
    \A k \in 1..Len(results) :
        LET c == ConfigOf(results[k])
        IN  c.extendsFrom \in { d.path : d \in Range(configsWithRules) } =>
                \E j \in 1..(k - 1) : ConfigOf(results[j]).path = c.extendsFrom

\* the order that analyzeDirectory follows: the results are in the order of
\* the paths, as findESLintConfigs sorts them
C12_PathOrder ==
    \A j, k \in 1..Len(results) :
        j < k => \E a, b \in 1..Len(TreePaths) :
                     /\ a < b
                     /\ ConfigOf(results[j]).path = TreePaths[a]
                     /\ ConfigOf(results[k]).path = TreePaths[b]

-----------------------------------------------------------------------------
(* C13 *)

\* following the extends links from one file leads to another
RECURSIVE Reaches(_, _, _, _)
Reaches(files, from, to, fuel) ==
    /\ fuel > 0
    /\ \E f \in Range(files) :
           /\ f.path = from
           /\ \/ f.extendsFrom = to
              \/ Reaches(files, f.extendsFrom, to, fuel - 1)

\* the files that are on a cycle of extends links
OnCycle(files) ==
    { f.path : f \in { g \in Range(files) :
                         Reaches(files, g.path, g.path, Len(files)) } }

\* C13: when the extends links of the configs form a cycle, ordering them
\* reports a fatal error.
C13_CycleReported ==
    /\ pc = "returned"
    /\ arg.fn = "sortByDependencies"
    /\ OnCycle(arg.value) # {}
    => out.kind = "threw"

\* what sortByDependencies does with a cycle: it returns, and the order it
\* returns holds every config once, except the configs that are on a cycle
\* or extend, through other configs, a config on a cycle
C13_CycleDropped ==
    /\ pc = "returned"
    /\ arg.fn = "sortByDependencies"
    => /\ out.kind = "returned"
       /\ \A i, j \in 1..Len(out.value) : out.value[i] = out.value[j] => i = j
       /\ Range(out.value) =
              { f.path : f \in { g \in Range(arg.value) :
                  \A c \in OnCycle(arg.value) :
                      /\ g.path # c
                      /\ ~Reaches(arg.value, g.path, c, Len(arg.value)) } }

-----------------------------------------------------------------------------
(* C14 *)

\* C14: a config that fails to load does not make analyzeDirectory fail as a
\* whole: the run never ends in the error of one config, and once it has
\* returned the results hold every config that loads and has an
\* .oxlintrc.json.
C14_PartialResults ==
    /\ pc # "threw"
    /\ pc \in {"analyzed", "reported"} =>
           \A c \in Range(configsWithRules) :
               c.hasOxlint /\ ~analysisThrows(c) =>
                   \E k \in 1..Len(results) :
                       results[k].eslintConfigPath = relative(cwd, c.path)

\* what analyzeDirectory does: it returns only when no config with an
\* .oxlintrc.json fails to load, and the error of the first config that
\* fails ends the run with the configs after it not analyzed
C14_FirstErrorEnds ==
    /\ pc \in {"analyzed", "reported"} =>
           \A c \in Range(configsWithRules) : c.hasOxlint => ~analysisThrows(c)
    /\ pc = "threw" =>
           /\ analysisThrows(configsWithRules[idx])
           /\ Len(results) < idx

-----------------------------------------------------------------------------
(* C15 *)

\* the config declares a top-level rule or a rule in an override block
DeclaresRules(c) ==
    \/ c.raw.rules # <<>>
    \/ \E b \in Range(c.raw.overrides) : b # <<>>

\* the indices of results that hold the result of a config
ResultsOf(c) ==
    { k \in 1..Len(results) :
        results[k].eslintConfigPath = relative(cwd, c.path) }

\* C15: after analyzeDirectory has returned, a config that declares rules
\* and has no .oxlintrc.json is in eslintConfigsWithoutOxlint and not in
\* results; one that has an .oxlintrc.json is once in results, with its
\* .oxlintrc.json at the same index of analyzedOxlintConfigs, and not in
\* eslintConfigsWithoutOxlint; a config that declares no rule is in neither;
\* results and analyzedOxlintConfigs have the same length.
C15_ConfigPartition ==
    pc \in {"analyzed", "reported"} =>
        /\ Len(results) = Len(analyzedOxlintConfigs)
        /\ \A c \in Range(configs) :
               LET listed == relative(cwd, c.path)
                                 \in Range(eslintConfigsWithoutOxlint)
               IN  IF ~DeclaresRules(c)
                   THEN ~listed /\ ResultsOf(c) = {}
                   ELSE IF ~c.hasOxlint
                   THEN listed /\ ResultsOf(c) = {}
                   ELSE /\ ~listed
                        /\ Cardinality(ResultsOf(c)) = 1
                        /\ \A k \in ResultsOf(c) :
                               analyzedOxlintConfigs[k] =
                                   relative(cwd, oxlintPathOf(c.path))

\* analyzeDirectory has returned on a directory with a config that has its
\* rules in an override block only, after a config without .oxlintrc.json
C15_Witness ==
    /\ pc = "analyzed"
    /\ Len(eslintConfigsWithoutOxlint) = 1
    /\ \E c \in Range(configs) :
           /\ c.raw.rules = <<>>
           /\ DeclaresRules(c)
           /\ ResultsOf(c) # {}

-----------------------------------------------------------------------------
(* C16 *)

\* the documented mapping of the eight severities
SeverityTable ==
    (JsNum(0) :> "off") @@ (JsStr("off") :> "off") @@ (JsStr("allow") :> "off")
        @@ (JsNum(1) :> "warn") @@ (JsStr("warn") :> "warn")
        @@ (JsNum(2) :> "error") @@ (JsStr("error") :> "error")
        @@ (JsStr("deny") :> "error")

\* C16: normalizeSeverity returns the documented severity for the eight
\* documented values and throws an error naming the value for every other
\* value; what it returns is off, warn or error.
C16_NormalizeSeverity ==
    /\ pc = "returned"
    /\ arg.fn = "normalizeSeverity"
    => IF arg.value \in DOMAIN SeverityTable
       THEN out = [kind |-> "returned", value |-> SeverityTable[arg.value]]
       ELSE out = [kind |-> "threw", value |-> arg.value]

\* normalizeSeverity has thrown on the number 3
C16_Witness ==
    /\ pc = "returned"
    /\ arg = Call("normalizeSeverity", JsNum(3))
    /\ out.kind = "threw"

-----------------------------------------------------------------------------
(* C17 *)

\* C17: normalizing a normalized rule name gives the same name again.
C17_NormalizeIdempotent ==
    /\ pc = "returned"
    /\ arg.fn = "normalizeOxlintRuleName"
    => normalizeOxlintRuleName(out.value) = out.value

\* the same, for the names that have neither eslint/ nor
\* @typescript-eslint/ behind a leading eslint/
C17_IdempotentOnPlainNames ==
    /\ pc = "returned"
    /\ arg.fn = "normalizeOxlintRuleName"
    /\ ~(/\ Len(arg.value) >= 3
         /\ arg.value[1] = "eslint"
         /\ arg.value[2] \in {"eslint", "@typescript-eslint"})
    => normalizeOxlintRuleName(out.value) = out.value

-----------------------------------------------------------------------------
(* C19 *)

\* the canonical name of C19: a leading @typescript-eslint/ rewritten to
\* typescript/, then a leading eslint/ dropped
Canonical(name) ==
    LET rewritten == IF Len(name) >= 2 /\ name[1] = "@typescript-eslint"
                     THEN <<"typescript">> \o SubSeq(name, 2, Len(name))
                     ELSE name
    IN  IF Len(rewritten) >= 2 /\ rewritten[1] = "eslint"
        THEN SubSeq(rewritten, 2, Len(rewritten))
        ELSE rewritten

\* C19: isSupportedByOxlint is true exactly when the canonical name is in
\* the name set, or the canonical name has a scope and what follows its
\* first "/" is in the name set.
C19_SupportedExactly ==
    /\ pc = "returned"
    /\ arg.fn = "isSupportedByOxlint"
    => out.value =
           LET name == Canonical(arg.value.name)
           IN  \/ name \in arg.value.names
               \/ /\ Len(name) >= 2
                  /\ SubSeq(name, 2, Len(name)) \in arg.value.names

\* the same for the names of at most one scope, and the equal answers for
\* the two spellings of a typescript rule
C19_SupportedOneScope ==
    /\ pc = "returned"
    /\ arg.fn = "isSupportedByOxlint"
    => LET name == Canonical(arg.value.name)
       IN  /\ Len(name) <= 2 =>
                  out.value = \/ name \in arg.value.names
                              \/ /\ Len(name) = 2
                                 /\ <<name[2]>> \in arg.value.names
           /\ arg.value.name[1] = "typescript" =>
                  out.value = isSupportedByOxlint(
                                  arg.value.names,
                                  <<"@typescript-eslint">> \o Tail(arg.value.name))

-----------------------------------------------------------------------------
(* C20 *)

\* C20: getTypeAwareRules never throws; when nothing is cached and the
\* fetch fails, times out or yields no rule name, it returns the embedded
\* list, and isTypeAware answers from that list.
C20_FallbackOnFailure ==
    /\ pc = "returned"
    /\ arg.fn = "getTypeAwareRules"
    => /\ out.kind = "returned"
       /\ /\ ~arg.value.cache.present
          /\ \/ arg.value.fetch.kind \in {"failed", "timeout"}
             \/ \A i \in 1..Len(arg.value.fetch.lines) :
                    arg.value.fetch.lines[i][1] # "typescript"
          => /\ out.rules = TYPE_AWARE_RULES_FALLBACK
             /\ out.isTypeAware =
                    (Canonical(arg.value.name) \in TYPE_AWARE_RULES_FALLBACK)

\* the fetch has timed out with nothing cached, and isTypeAware has
\* answered yes for @typescript-eslint/no-floating-promises
C20_Witness ==
    /\ pc = "returned"
    /\ arg.fn = "getTypeAwareRules"
    /\ ~arg.value.cache.present
    /\ arg.value.fetch.kind = "timeout"
    /\ arg.value.name = TsNoFloatingPromises
    /\ out.isTypeAware

-----------------------------------------------------------------------------
(* C18 *)

\* the other spelling of a rule name: a core rule with the eslint/ prefix,
\* a typescript rule with the other of its two scopes
OtherSpelling(name) ==
    IF Len(name) = 1 THEN <<"eslint">> \o name
    ELSE IF name[1] = "typescript" THEN <<"@typescript-eslint">> \o Tail(name)
    ELSE IF name[1] = "@typescript-eslint" THEN <<"typescript">> \o Tail(name)
    ELSE name

\* a list of entries with one name spelled the other way
Respelled(entries, name) ==
    [i \in 1..Len(entries) |->
        IF entries[i].name = name
        THEN [entries[i] EXCEPT !.name = OtherSpelling(name)]
        ELSE entries[i]]

\* a config whose .oxlintrc.json spells one name the other way
RespelledInOxlint(c, name) == [c EXCEPT !.oxlint = Respelled(c.oxlint, name)]

\* a config whose file and whose resolved rules spell one name the other way
RespelledInEslint(c, name) ==
    [c EXCEPT !.raw.rules = Respelled(c.raw.rules, name),
              !.raw.overrides = [b \in 1..Len(c.raw.overrides) |->
                                    Respelled(c.raw.overrides[b], name)],
              !.resolved = Respelled(c.resolved, name)]

\* the canonical names of a list
CanonicalNames(list) == { Canonical(e) : e \in Range(list) }

\* two results have the same canonical names in each of the four lists
SameCategories(r, q) ==
    /\ CanonicalNames(r.rulesToRemove) = CanonicalNames(q.rulesToRemove)
    /\ CanonicalNames(r.inheritedRulesToDisable)
           = CanonicalNames(q.inheritedRulesToDisable)
    /\ CanonicalNames(r.redundantOffRules) = CanonicalNames(q.redundantOffRules)
    /\ CanonicalNames(r.unsupportedRules) = CanonicalNames(q.unsupportedRules)

\* the names that have another spelling which the config does not use
\* already
Respellable(entries) ==
    { n \in Keys(entries) : OtherSpelling(n) \notin Keys(entries) }

\* C18: spelling one rule name the other way, in the Oxlint rule set or in
\* the ESLint config, leaves every rule in the same category.
C18_SpellingIndependent ==
    \A k \in 1..Len(results) :
        LET c == ConfigOf(results[k])
        IN  /\ \A n \in Respellable(c.oxlint) :
                   SameCategories(results[k],
                                  analyzeConfigPair(RespelledInOxlint(c, n),
                                                    ruleNames, typeAware))
            /\ \A n \in Respellable(c.resolved) :
                   SameCategories(results[k],
                                  analyzeConfigPair(RespelledInEslint(c, n),
                                                    ruleNames, typeAware))

\* the spelling that the analysis does canonicalize: @typescript-eslint/ or
\* typescript/ in the ESLint config
C18_EslintTypescriptSpelling ==
    \A k \in 1..Len(results) :
        LET c == ConfigOf(results[k])
        IN  \A n \in { m \in Respellable(c.resolved) : Len(m) >= 2 } :
                SameCategories(results[k],
                               analyzeConfigPair(RespelledInEslint(c, n),
                                                 ruleNames, typeAware))

\* the entries of the extends key that are relative file paths
RelativeEntries(extends) ==
    { i \in 1..Len(extends.items) : startsWithDotSlash(extends.items[i]) }

\* the parent config file an entry names, resolved against the directory of
\* the config: the file as written, a name without extension being the
\* ".js" file
ParentFile(configPath, target) ==
    LET resolvedPath == resolve(SubSeq(configPath, 1, Len(configPath) - 1),
                                target)
    IN  IF resolvedPath[Len(resolvedPath)] = "base-config"
        THEN addJsExtension(resolvedPath)
        ELSE resolvedPath

\* C21: parseRawESLintConfig returns an extendsFrom exactly when the extends
\* key, a string or an array, has an entry that is a relative file path, and
\* it is then the path of that parent file resolved against the directory of
\* the config; without such an entry it returns no extendsFrom.
C21_ExtendsFrom ==
    (pc = "returned" /\ arg.fn = "parseRawESLintConfig") =>
        LET f == arg.value
        IN  /\ out.kind = "returned"
            /\ IF RelativeEntries(f.extends) = {}
               THEN out.extendsFrom = NoExtends
               ELSE \E i \in RelativeEntries(f.extends) :
                        out.extendsFrom =
                            ParentFile(f.configPath, f.extends.items[i])

\* what holds instead: only a string or the first entry of an array counts,
\* and it is resolved against the directory of the config with ".js" put
\* behind every name that does not end with it
C21_FirstEntryOnly ==
    (pc = "returned" /\ arg.fn = "parseRawESLintConfig"
        /\ arg.value.extends.items # <<>>) =>
        LET f == arg.value
            first == f.extends.items[1]
        IN  /\ out.kind = "returned"
            /\ IF startsWithDotSlash(first)
               THEN out.extendsFrom =
                        addJsExtension(
                            resolve(SubSeq(f.configPath, 1,
                                           Len(f.configPath) - 1), first))
               ELSE out.extendsFrom = NoExtends

-----------------------------------------------------------------------------
(* C22 *)

\* C22: the type-aware rule set is fixed once per run: every isTypeAware
\* query after the first is answered from the set the first one used and
\* starts no fetch, whatever the docs page would answer by then.
C22_TypeAwareSetFixed ==
    arg.fn = "isTypeAware" =>
        \A k \in 2..Len(out.answers) :
            /\ ~out.answers[k].fetched
            /\ out.answers[k].rules = out.answers[1].rules
            /\ out.answers[k].isTypeAware =
                   (Canonical(out.answers[k].name) \in out.answers[1].rules)

\* the first query found the docs page unreachable and used the fallback;
\* by the second query the page lists typescript/x, and the query for
\* @typescript-eslint/x is still answered no
C22_Witness ==
    /\ arg.fn = "isTypeAware"
    /\ Len(out.answers) >= 2
    /\ arg.value[1].fetch = FetchFailed
    /\ out.answers[1].fetched
    /\ arg.value[2].fetch = FetchOutput(<< <<"typescript", "x">> >>)
    /\ out.answers[2].name = <<"@typescript-eslint", "x">>
    /\ ~out.answers[2].isTypeAware

-----------------------------------------------------------------------------
(* C23 *)

\* the place of a path in the order of the path strings
PathRank(p) == CHOOSE i \in 1..Len(TreePaths) : TreePaths[i] = p

\* the given config that a given config extends, if there is one
ParentOf(files, p) ==
    LET f == CHOOSE g \in Range(files) : g.path = p
    IN  IF f.extendsFrom \in Range(pathsOf(files)) THEN f.extendsFrom
        ELSE NoExtends

-----------------------------------------------------------------------------
(* C24 *)

\* C24: sortByDependencies terminates on every set of configs, also when the
\* extends links hold a cycle or a config extends itself, and no config is
\* twice in result, at any moment of the call and in what it returns.
C24_TerminatesWithoutRepeats ==
    /\ [](\A i, j \in 1..Len(result) : result[i] = result[j] => i = j)
    /\ [](pc = "returned" => out = sortByDependencies(arg.value))
    /\ <>(pc = "returned")

\* the call has returned for configs that extend each other, next to a
\* config that extends itself
C24_Witness ==
    /\ pc = "returned"
    /\ arg.fn = "sortByDependencies"
    /\ Cardinality(OnCycle(arg.value)) = 3
    /\ \E f \in Range(arg.value) : f.extendsFrom = f.path
    /\ \E f \in Range(arg.value) :
           f.extendsFrom # f.path /\ f.extendsFrom \in OnCycle(arg.value)
    /\ out.kind = "returned"

-----------------------------------------------------------------------------
(* C25 *)

\* a rule list has at most one entry per canonical name
UniqueNames(rules) ==
    \A i, j \in 1..Len(rules) :
        Canonical(rules[i].name) = Canonical(rules[j].name) => i = j

\* C25: the rule list that loadESLintConfig, getDirectlyDefinedRules or
\* parseRawOxlintRules returns for one config has at most one entry per
\* canonical rule name.
C25_UniqueRuleNames ==
    /\ pc = "returned"
    /\ arg.fn \in {"loadESLintConfig", "getDirectlyDefinedRules",
                   "parseRawOxlintRules"}
    => UniqueNames(out.value)

\* what holds: the list of getDirectlyDefinedRules has every name once, and
\* the part of parseRawOxlintRules that comes from the parent repeats no
\* name of the child
C25_DirectRulesUnique ==
    /\ (pc = "returned" /\ arg.fn = "getDirectlyDefinedRules")
           => UniqueNames(out.value)
    /\ (pc = "returned" /\ arg.fn = "parseRawOxlintRules")
           => LET own == ownOxlintRules(arg.value.config)
              IN  \A i \in (Len(own) + 1)..Len(out.value) :
                      ~MapHas(own, out.value[i].name)

-----------------------------------------------------------------------------
(* C26 *)

\* the severity token of a rule value: the value, or the first element of
\* an array
TokenOf(value) ==
    IF value.kind = "array" /\ Len(value.items) > 0 THEN value.items[1]
    ELSE value

\* C26: the severity conversion of getDirectlyDefinedRules agrees with
\* normalizeSeverity: for a token that normalizeSeverity accepts, alone or
\* first in an array, it yields the same severity, and for a token that
\* normalizeSeverity rejects it raises an error.
C26_AgreesWithNormalizeSeverity ==
    (pc = "returned" /\ arg.fn = "getSeverity") =>
        IF normalizeSeverity(TokenOf(arg.value)) = THROWS
        THEN out.kind = "threw"
        ELSE /\ out.kind = "returned"
             /\ out.value = normalizeSeverity(TokenOf(arg.value))

\* what holds: the two agree on 0, 1, 2, "off", "warn", "error" and
\* "allow"; getSeverity never throws, it reads "1" and "2" as warn and
\* error and every other value, "deny" included, as off
C26_AgreesOnEslintTokens ==
    (pc = "returned" /\ arg.fn = "getSeverity") =>
        LET token == TokenOf(arg.value)
        IN  /\ out.kind = "returned"
            /\ out.value =
                   IF token = JsStr("deny") THEN "off"
                   ELSE IF token = JsStr("2") THEN "error"
                   ELSE IF token = JsStr("1") THEN "warn"
                   ELSE IF normalizeSeverity(token) = THROWS THEN "off"
                   ELSE normalizeSeverity(token)

-----------------------------------------------------------------------------
(* C27 *)

\* C27: generating the Oxlint configs writes an .oxlintrc.json only when
\* the suggested config differs from the one on disk: a second run on the
\* same ESLint configs writes no file, for root configs and for configs
\* that extend a parent config alike.
C27_SecondRunWritesNothing ==
    \A k \in 1..Len(report) :
        report[k].run = "second run" => report[k].op # "written"

\* what holds of the second run: it removes no file, and it rewrites the
\* file of a config only when the suggested config extends a parent or has
\* an override whose files are one string
C27_RewrittenConfigs ==
    \A k \in 1..Len(report) :
        report[k].run = "second run" =>
            /\ report[k].op # "removed"
            /\ report[k].op = "written" =>
                   \/ report[k].suggested.extends # <<>>
                   \/ \E i \in 1..Len(report[k].suggested.overrides) :
                          report[k].suggested.overrides[i].files.kind
                              = "string"

-----------------------------------------------------------------------------
(* C28 *)

\* C28: generating the Oxlint configs deletes an existing .oxlintrc.json,
\* and writes none, only when the suggested config has no top-level rule
\* and no override with rules; a suggested config with an override rule is
\* written, or kept when it is up to date, and not deleted.
C28_RemovedOnlyWhenEmpty ==
    \A k \in 1..Len(report) :
        /\ report[k].op \in {"removed", "not needed"} =>
               /\ report[k].suggested.rules = <<>>
               /\ report[k].suggested.overrides = <<>>
        /\ report[k].suggested.overrides # <<>> =>
               report[k].op \in {"written", "up to date"}

\* what holds: the file is deleted, or none is written, exactly when the
\* suggested config has no top-level rule, whatever its overrides hold
C28_RemovedWithoutTopLevelRules ==
    \A k \in 1..Len(report) :
        report[k].op \in {"removed", "not needed"}
            <=> report[k].suggested.rules = <<>>

-----------------------------------------------------------------------------
(* C29 *)

\* the pairs of a list hold the ESLint rule
PairedIn(pairs, eslintRule) ==
    \E k \in 1..Len(pairs) : pairs[k].eslintRule = eslintRule

\* C29: checkForConflicts puts every ESLint rule that is enabled, supported
\* by Oxlint and named in the Oxlint rule list in exactly one of duplicates
\* and conflicts: in duplicates when the Oxlint severity is the same, in
\* conflicts when it is another one, off included; a rule that is off,
\* unsupported or not in the Oxlint rule list is in neither.
C29_DuplicatesAndConflicts ==
    (pc = "returned" /\ arg.fn = "checkForConflicts") =>
        \A eslintRule \in Range(arg.value.eslintRules) :
            LET oxlintSeverities ==
                    { o.severity : o \in { x \in Range(arg.value.oxlintRules) :
                                             x.name = eslintRule.name } }
                inDuplicates == PairedIn(out.value.duplicates, eslintRule)
                inConflicts == PairedIn(out.value.conflicts, eslintRule)
            IN  IF /\ eslintRule.severity # "off"
                   /\ eslintRule.name \in allOxlintRules
                   /\ oxlintSeverities # {}
                THEN /\ inDuplicates # inConflicts
                     /\ oxlintSeverities = {eslintRule.severity}
                            => inDuplicates
                     /\ eslintRule.severity \notin oxlintSeverities
                            => inConflicts
                ELSE ~inDuplicates /\ ~inConflicts

\* no-console is warn in ESLint and off in Oxlint, no-debugger is error in
\* both: the first is among the conflicts, the second among the duplicates
C29_Witness ==
    /\ pc = "returned"
    /\ arg.fn = "checkForConflicts"
    /\ arg.value.eslintRules =
           << [name |-> NoConsole, severity |-> "warn"],
              [name |-> NoDebugger, severity |-> "error"] >>
    /\ arg.value.oxlintRules =
           << [name |-> NoConsole, severity |-> "off"],
              [name |-> NoDebugger, severity |-> "error"] >>
    /\ PairedIn(out.value.conflicts, arg.value.eslintRules[1])
    /\ PairedIn(out.value.duplicates, arg.value.eslintRules[2])

-----------------------------------------------------------------------------
(* C30 *)

\* C30: generateReport leaves the analysis as it was: every list of every
\* result and the order of the results are the same after the call
C30_ReportLeavesAnalysis ==
    [][pc' = "reported" => results' = results]_vars

\* what holds instead: the call keeps the order of the results, the other
\* four lists, the paths and the summary, and leaves the elements of
\* redundantOffRules in place or reordered, in the order of sort()
C30_OnlyRedundantOffReordered ==
    [][pc' = "reported" =>
          /\ Len(results') = Len(results)
          /\ \A i \in 1..Len(results) :
                /\ results'[i] =
                       [results[i] EXCEPT
                            !.redundantOffRules = results'[i].redundantOffRules]
                /\ results'[i].redundantOffRules =
                       sortStrings(results[i].redundantOffRules)
                /\ \A e \in Range(results[i].redundantOffRules) :
                       Occurrences(results'[i].redundantOffRules, e) =
                           Occurrences(results[i].redundantOffRules, e)]_vars

====
